---- MODULE Spec2Model ----
(***************************************************************************)
(* Insert-optimized data sketches: the ingest state machines of            *)
(* final::SpaceSaving (arithmetic and opaque-key specializations) and      *)
(* final::CountSketch and final::KarninLangLiberty.  Each specification    *)
(* runs one sketch; the variables of the other sketches stay at their idle *)
(* values.                                                                 *)
(*                                                                         *)
(* Arrays are functions over 0..K-1 so that indices are the source's.      *)
(* The template parameter K and the width of one SIMD block are scaled     *)
(* down together for the exhaustive specification (K stays a multiple of   *)
(* the block width, as the static_assert of the source demands); the       *)
(* capacity-overflow scenario runs with the source's K = 32 and 32 keys    *)
(* per block.                                                              *)
(***************************************************************************)
EXTENDS Integers, Sequences, FiniteSets, Bags, TLC

VARIABLES
  T,        \* key type of the instantiation: "int64", "float" or "opaque"
  lanes,    \* keys compared by one SIMD block scan (32 in the source)
  values,   \* SpaceSaving::values, [0..K-1 -> key]
  weights,  \* SpaceSaving::weights, [0..K-1 -> Nat]
  hashes,   \* SpaceSaving::hashes (opaque specialization), [0..K-1 -> Nat]
  calls,    \* <<roll_down(hash), value>> of every Insert(value, hash) so far
  heap_values,   \* heap::SpaceSaving::values, [0..k_-1 -> key]
  heap_weights,  \* heap::SpaceSaving::weights, [0..k_-1 -> Nat]
  n,        \* number of Insert calls made so far
  freq,     \* exact number of Insert calls per key passed to Insert
  step,     \* position in the scripted stream of a scenario
  t,        \* CountSketch template parameter t (width of a row)
  d,        \* CountSketch template parameter d (number of rows)
  C,        \* CountSketch::C, [0..d*t-1 -> Int]
  touched,  \* <<index, sign>> of every counter access of the last Insert
  inserted, \* number of Inserts made with each hash, [Hashes -> Nat]
  C0,       \* the counters as they were when the sketch came into being
  k_,                     \* KarninLangLiberty::k_
  num_levels_,            \* KarninLangLiberty::num_levels_
  is_level_zero_sorted_,  \* KarninLangLiberty::is_level_zero_sorted_
  n_,                     \* KarninLangLiberty::n_
  max_capacity_,          \* KarninLangLiberty::max_capacity_
  levels_,                \* KarninLangLiberty::levels_, [0..size-1 -> Nat]
  items_,                 \* the span items_, [0..size-1 -> item]
  level_capacities,       \* KarninLangLiberty::level_capacities
  thrown,                 \* the exception the constructor left with, or "none"
  items_storage_,         \* the block items_storage_ points to (0: none)
  items_begin,            \* items_.data() - items_storage_, in items
  twin,                   \* a second KarninLangLiberty given the same Inserts
  same_bits,              \* both random_bit sources gave the same bits so far
  arg,      \* the arguments of the call of a pure routine under test
  ret       \* what the call returned, <<>> before it has returned

vars ==
  <<T, lanes, values, weights, hashes, n, freq, step, t, d, C, touched,
    inserted, C0, k_, num_levels_, is_level_zero_sorted_, n_, max_capacity_,
    levels_, items_, level_capacities, thrown, items_storage_, items_begin,
    twin, same_bits, arg, ret, calls, heap_values, heap_weights>>

callVars == <<arg, ret>>

csVars == <<t, d, C, touched, inserted, C0>>

ssVars == <<T, lanes, values, weights, hashes, freq, calls>>

heapVars == <<heap_values, heap_weights>>

kllVars ==
  <<k_, num_levels_, is_level_zero_sorted_, n_, max_capacity_, levels_,
    items_, level_capacities, thrown, items_storage_, items_begin,
    twin, same_bits>>

----------------------------------------------------------------------------
(* Bounds of the exhaustive model *)

\* number of SIMD blocks of the scaled sketch
NumBlocks == 2
\* Insert calls explored from the fresh sketch
MaxInserts == 7
\* distinct integer keys offered to Insert that no initial slot holds
ForeignKeys == 3

\* keys per SIMD block in the scaled sketch (32 in simd.hpp)
ScaledLanes == 2

ScaledK == NumBlocks * ScaledLanes

\* keys per SIMD block in the source (Compare32Keys64Bit, Compare32Keys32Bit)
SimdLanes == 32

----------------------------------------------------------------------------
(* Keys *)

Min(S) == CHOOSE x \in S : \A y \in S : x <= y

RECURSIVE Pow2(_)
Pow2(e) == IF e = 0 THEN 1 ELSE 2 * Pow2(e - 1)

RECURSIVE Log2Floor(_)
Log2Floor(i) == IF i <= 1 THEN 0 ELSE 1 + Log2Floor(i \div 2)

\* An IEEE-754 binary32 bit pattern: sign bit and the remaining 31 bits.
FloatBits(sign, mag) == [sign |-> sign, mag |-> mag]

\* static_cast<float>(i) for 0 <= i < 2^24, as a bit pattern.
IntToFloat(i) ==
  IF i = 0 THEN FloatBits(0, 0)
  ELSE LET e == Log2Floor(i)
       IN FloatBits(0, (127 + e) * Pow2(23) + (i - Pow2(e)) * Pow2(23 - e))

kZero == FloatBits(0, 0)
NegZero == FloatBits(1, 0)
\* a quiet NaN, 0x7FC00000
QuietNaN == FloatBits(0, 2143289344)

\* IEEE comparison `value == kZero`: true of both zeros, false of NaN.
FloatEqualsZero(value) == value.mag = 0

IsArithmetic(type) == type \in {"int64", "float"}

SizeOf(type) == IF type = "float" THEN 4 ELSE 8

\* Normalized that returns its argument for every type.
NormalizedIdentity(type, value) == value

Normalized(type, value) ==
  IF type = "float"
    THEN (IF FloatEqualsZero(value) THEN kZero ELSE value)
    ELSE value

\* detail::sequence<T, K>(): sequence[i] = i converted to T.
sequence(type, K) ==
  [i \in 0..(K - 1) |-> IF type = "float" THEN IntToFloat(i) ELSE i]

\* std::array<T, K> values{} of the opaque specialization: K empty strings.
DefaultValues(K) == [i \in 0..(K - 1) |-> ""]

\* std::array<uint64_t, K> weights{}
ZeroWeights(K) == [i \in 0..(K - 1) |-> 0]

KOf(w) == Cardinality(DOMAIN w)

----------------------------------------------------------------------------
(* SIMD block scan, by its result: the set of bit positions of the mask *)

CompareKeys(keys, v, base, N) == {b \in 0..(N - 1) : keys[base + b] = v}

\* __builtin_ctzll of a non-zero mask
Ctz(mask) == Min(mask)

\* for (; i + N <= K; i += N) { mask = CompareNKeys(v, data + i);
\*                              if (mask != 0) return i + ctz(mask); }
\* Returns the index found, or -1 together with the i the loop ended at.
RECURSIVE ScanBlocks(_, _, _, _, _)
ScanBlocks(keys, v, i, N, K) ==
  IF i + N <= K
    THEN LET mask == CompareKeys(keys, v, i, N)
         IN IF mask # {} THEN [found |-> i + Ctz(mask), i |-> i]
            ELSE ScanBlocks(keys, v, i + N, N, K)
    ELSE [found |-> -1, i |-> i]

\* Find that reports the last slot, not NotFound, on a miss.
FindMissIsLast(type, keys, value, L, NotFound) ==
  LET r == ScanBlocks(keys, value, 0, L, KOf(keys))
  IN IF r.found # -1 THEN r.found ELSE KOf(keys) - 1

\* Find that scans the first block only.
FindFirstBlockOnly(type, keys, value, L, NotFound) ==
  LET r == ScanBlocks(keys, value, 0, L, L)
  IN IF r.found # -1 THEN r.found ELSE NotFound

\* SpaceSaving::Find<NotFound> of the arithmetic specialization.
Find(type, keys, value, L, NotFound) ==
  LET K == KOf(keys)
  IN IF SizeOf(type) = 8
       THEN LET r == ScanBlocks(keys, value, 0, L, K)
            IN IF r.found # -1 THEN r.found ELSE NotFound
       ELSE LET r64 == ScanBlocks(keys, value, 0, 2 * L, K)
            IN IF r64.found # -1 THEN r64.found
               ELSE LET r32 == ScanBlocks(keys, value, r64.i, L, K)
                    IN IF r32.found # -1 THEN r32.found ELSE NotFound

\* Mask loop that takes the first fingerprint match without comparing keys.
ScanMaskFirstMatch(vals, value, i, mask) ==
  IF mask = {} THEN -1 ELSE i + Ctz(mask)

\* while (mask != 0) { j = i + ctz(mask); if (values[j] == value) return j;
\*                     mask &= mask - 1; }
RECURSIVE ScanMask(_, _, _, _)
ScanMask(vals, value, i, mask) ==
  IF mask = {} THEN -1
  ELSE LET j == i + Ctz(mask)
       IN IF vals[j] = value THEN j
          ELSE ScanMask(vals, value, i, mask \ {Ctz(mask)})

\* SpaceSaving::Find<NotFound>(value, hash) of the opaque specialization.
RECURSIVE FindOpaqueFrom(_, _, _, _, _, _, _)
FindOpaqueFrom(hs, vals, value, hash, i, L, NotFound) ==
  IF i + L <= KOf(hs)
    THEN LET j == ScanMask(vals, value, i, CompareKeys(hs, hash, i, L))
         IN IF j # -1 THEN j
            ELSE FindOpaqueFrom(hs, vals, value, hash, i + L, L, NotFound)
    ELSE NotFound

FindOpaque(hs, vals, value, hash, L, NotFound) ==
  FindOpaqueFrom(hs, vals, value, hash, 0, L, NotFound)

----------------------------------------------------------------------------
(* Min-heap *)

\* SiftLoop descending into the larger child instead of the smaller one.
RECURSIVE SiftLoopLargerChild(_, _, _, _, _)
SiftLoopLargerChild(w, v, weight, value, parent) ==
  LET child == 2 * parent + 1
      right_child == child + 1
      c == IF right_child < KOf(w) /\ w[child] < w[right_child]
             THEN right_child ELSE child
      done == [weights |-> [w EXCEPT ![parent] = weight],
               values |-> [v EXCEPT ![parent] = value]]
  IN IF child < KOf(w)
       THEN IF ~(weight > w[c]) THEN done
            ELSE SiftLoopLargerChild([w EXCEPT ![parent] = w[c]],
                                     [v EXCEPT ![parent] = v[c]],
                                     weight, value, c)
       ELSE done

\* SiftLoop that moves the weights down the heap and leaves the values of
\* the slots it passes where they are.
RECURSIVE SiftLoopWeightsOnly(_, _, _, _, _)
SiftLoopWeightsOnly(w, v, weight, value, parent) ==
  LET K == KOf(w)
      child == 2 * parent + 1
      right_child == child + 1
      c == IF right_child < K /\ w[child] > w[right_child]
             THEN right_child ELSE child
      done == [weights |-> [w EXCEPT ![parent] = weight],
               values |-> [v EXCEPT ![parent] = value]]
  IN IF child < K
       THEN IF ~(weight > w[c]) THEN done
            ELSE SiftLoopWeightsOnly([w EXCEPT ![parent] = w[c]], v,
                                     weight, value, c)
       ELSE done

\* The while loop of SiftDown, arithmetic specialization.
RECURSIVE SiftLoop(_, _, _, _, _)
SiftLoop(w, v, weight, value, parent) ==
  LET K == KOf(w)
      child == 2 * parent + 1
      right_child == child + 1
      c == IF right_child < K /\ w[child] > w[right_child]
             THEN right_child ELSE child
      done == [weights |-> [w EXCEPT ![parent] = weight],
               values |-> [v EXCEPT ![parent] = value]]
  IN IF child < K
       THEN IF ~(weight > w[c]) THEN done
            ELSE SiftLoop([w EXCEPT ![parent] = w[c]],
                          [v EXCEPT ![parent] = v[c]], weight, value, c)
       ELSE done

\* SiftDown that leaves the updated element where it is.
SiftDownSkipped(w, v, i) == [weights |-> w, values |-> v]

SiftDown(w, v, i) == SiftLoop(w, v, w[i], v[i], i)

\* UpdateHeap that forgets to count the insert when the slot is reused.
UpdateHeapNoIncrement(w, v, value, i) ==
  SiftDown([w EXCEPT ![i] = IF v[i] = value THEN w[i] ELSE w[i] + 1],
           [v EXCEPT ![i] = value], i)

\* UpdateHeap that restarts the weight of a replaced slot at 1.
UpdateHeapResetWeight(w, v, value, i) ==
  SiftDown([w EXCEPT ![i] = IF v[i] = value THEN w[i] + 1 ELSE 1],
           [v EXCEPT ![i] = value], i)

\* UpdateHeap that counts every insert twice.
UpdateHeapDoubleCount(w, v, value, i) ==
  SiftDown([w EXCEPT ![i] = w[i] + 2], [v EXCEPT ![i] = value], i)

UpdateHeap(w, v, value, i) ==
  SiftDown([w EXCEPT ![i] = w[i] + 1], [v EXCEPT ![i] = value], i)

\* SiftLoopOpaque that moves weights and values down the heap and leaves the
\* hashes of the slots it passes where they are.
RECURSIVE SiftLoopOpaqueStaleHashes(_, _, _, _, _, _, _)
SiftLoopOpaqueStaleHashes(w, h, v, weight, hash, value, parent) ==
  LET K == KOf(w)
      child == 2 * parent + 1
      right_child == child + 1
      c == IF right_child < K /\ w[child] > w[right_child]
             THEN right_child ELSE child
      done == [weights |-> [w EXCEPT ![parent] = weight],
               hashes |-> [h EXCEPT ![parent] = hash],
               values |-> [v EXCEPT ![parent] = value]]
  IN IF child < K
       THEN IF ~(weight > w[c]) THEN done
            ELSE SiftLoopOpaqueStaleHashes([w EXCEPT ![parent] = w[c]], h,
                                           [v EXCEPT ![parent] = v[c]],
                                           weight, hash, value, c)
       ELSE done

\* The while loop of SiftDown, opaque specialization.
RECURSIVE SiftLoopOpaque(_, _, _, _, _, _, _)
SiftLoopOpaque(w, h, v, weight, hash, value, parent) ==
  LET K == KOf(w)
      child == 2 * parent + 1
      right_child == child + 1
      c == IF right_child < K /\ w[child] > w[right_child]
             THEN right_child ELSE child
      done == [weights |-> [w EXCEPT ![parent] = weight],
               hashes |-> [h EXCEPT ![parent] = hash],
               values |-> [v EXCEPT ![parent] = value]]
  IN IF child < K
       THEN IF ~(weight > w[c]) THEN done
            ELSE SiftLoopOpaque([w EXCEPT ![parent] = w[c]],
                                [h EXCEPT ![parent] = h[c]],
                                [v EXCEPT ![parent] = v[c]],
                                weight, hash, value, c)
       ELSE done

SiftDownOpaque(w, h, v, i) == SiftLoopOpaque(w, h, v, w[i], h[i], v[i], i)

UpdateHeapOpaque(w, h, v, value, hash, i) ==
  SiftDownOpaque([w EXCEPT ![i] = w[i] + 1], [h EXCEPT ![i] = hash],
                 [v EXCEPT ![i] = value], i)

----------------------------------------------------------------------------
(* 128-bit hashes of the opaque specialization: <<high word, low word>> *)

RECURSIVE Xor(_, _)
Xor(a, b) ==
  IF a = 0 THEN b
  ELSE IF b = 0 THEN a
  ELSE ((a + b) % 2) + 2 * Xor(a \div 2, b \div 2)

\* detail::roll_down: uint64_t(hash ^ (hash >> 64))
roll_down(h) == Xor(h[2], h[1])

----------------------------------------------------------------------------
(* Inputs of the exhaustive model *)

\* two keys that equal initial dummies and ForeignKeys keys that do not
IntKeys == {0, 1} \cup {ScaledK + i : i \in 0..(ForeignKeys - 1)}

FloatKeys ==
  {kZero, NegZero, IntToFloat(1), QuietNaN}
    \cup {IntToFloat(ScaledK + i) : i \in 0..(ForeignKeys - 2)}

OpaqueKeys == {"", "a", "b"}

\* fingerprints 1 (also the initial hashes[1]) and one outside 0..K-1
Hashes128 == {<<1, 0>>, <<2, ScaledK + 1>>}

Keys(type) ==
  IF type = "int64" THEN IntKeys
  ELSE IF type = "float" THEN FloatKeys
  ELSE OpaqueKeys

----------------------------------------------------------------------------
(* The sketch as a state machine *)

\* no CountSketch is instantiated
NoCountSketch ==
  /\ t = 0
  /\ d = 0
  /\ C = <<>>
  /\ touched = <<>>
  /\ inserted = <<>>
  /\ C0 = <<>>

\* no heap::SpaceSaving is instantiated
NoHeapSketch ==
  /\ heap_values = <<>>
  /\ heap_weights = <<>>

\* no pure routine is under test
NoCall ==
  /\ arg = <<>>
  /\ ret = <<>>

\* no KLL sketch is instantiated
NoKLL ==
  /\ k_ = 0
  /\ num_levels_ = 0
  /\ is_level_zero_sorted_ = FALSE
  /\ n_ = 0
  /\ max_capacity_ = 0
  /\ levels_ = <<>>
  /\ items_ = <<>>
  /\ level_capacities = <<>>
  /\ thrown = "none"
  /\ items_storage_ = 0
  /\ items_begin = 0
  /\ twin = <<>>
  /\ same_bits = TRUE

Init ==
  /\ NoCountSketch
  /\ NoKLL
  /\ NoCall
  /\ NoHeapSketch
  /\ calls = {}
  /\ T \in {"int64", "float", "opaque"}
  /\ lanes = ScaledLanes
  /\ values = IF IsArithmetic(T) THEN sequence(T, ScaledK)
              ELSE DefaultValues(ScaledK)
  /\ hashes = IF IsArithmetic(T) THEN <<>> ELSE sequence("int64", ScaledK)
  /\ weights = ZeroWeights(ScaledK)
  /\ n = 0
  /\ freq = [x \in Keys(T) |-> 0]
  /\ step = 0

\* SpaceSaving::Insert(const T& v), arithmetic specialization.
Insert(v) ==
  /\ IsArithmetic(T)
  /\ LET value == Normalized(T, v)
         i == Find(T, values, value, lanes, 0)
         heap == UpdateHeap(weights, values, value, i)
     IN /\ weights' = heap.weights
        /\ values' = heap.values
  /\ n' = n + 1
  /\ freq' = [freq EXCEPT ![v] = @ + 1]
  /\ UNCHANGED <<T, lanes, hashes, calls, csVars, kllVars, callVars>>

\* SpaceSaving::Insert(const T& value, const __uint128_t& h), opaque
\* specialization.
InsertHashed(value, h) ==
  /\ T = "opaque"
  /\ LET hash == roll_down(h)
         i == FindOpaque(hashes, values, value, hash, lanes, 0)
         heap == UpdateHeapOpaque(weights, hashes, values, value, hash, i)
     IN /\ weights' = heap.weights
        /\ hashes' = heap.hashes
        /\ values' = heap.values
  /\ n' = n + 1
  /\ freq' = [freq EXCEPT ![value] = @ + 1]
  /\ calls' = calls \cup {<<roll_down(h), value>>}
  /\ UNCHANGED <<T, lanes, heapVars, csVars, kllVars, callVars>>

InsertAny ==
  /\ n < MaxInserts
  /\ \E v \in Keys(T) : Insert(v)
  /\ UNCHANGED <<step, heapVars>>

InsertHashedAny ==
  /\ n < MaxInserts
  /\ \E v \in OpaqueKeys : \E h \in Hashes128 : InsertHashed(v, h)
  /\ UNCHANGED step

Next == InsertAny \/ InsertHashedAny

Spec == Init /\ [][Next]_vars

----------------------------------------------------------------------------
(* Vocabulary of the SpaceSaving properties *)

K == KOf(weights)

Slots == DOMAIN weights

RECURSIVE SumOver(_, _)
SumOver(f, S) ==
  IF S = {} THEN 0
  ELSE LET x == CHOOSE y \in S : TRUE IN f[x] + SumOver(f, S \ {x})

\* number of Insert calls whose argument normalizes to x
true_freq(x) ==
  SumOver(freq, {r \in DOMAIN freq : Normalized(T, r) = x})

Items == {Normalized(T, r) : r \in DOMAIN freq}

Tracked(x) == \E i \in Slots : values[i] = x

SlotOf(x) == CHOOSE i \in Slots : values[i] = x

stored_weight(x) == weights[SlotOf(x)]

MinWeight == Min({weights[i] : i \in Slots})

----------------------------------------------------------------------------
(* SpaceSaving: heap, dominance, soundness *)

\* C1: in the fresh sketch and after every Insert (arithmetic and opaque
\* specializations) the weights array is a min-heap in array layout: every
\* non-root i has weights[(i-1)/2] <= weights[i], and weights[0] is the
\* minimum of all K weights.
C1_MinHeap ==
  /\ \A i \in 1..(K - 1) : weights[(i - 1) \div 2] <= weights[i]
  /\ weights[0] = MinWeight

\* The heap has been reordered by sifting: the root is no longer at weight 0
\* and a deeper slot carries a larger weight.
C1_Witness ==
  /\ weights[0] >= 1
  /\ \E i \in Slots : weights[i] > weights[0] + 1

\* C2 (as claimed): every tracked value x that was inserted at least once has
\* stored_weight(x) >= true_freq(x) - weights[0] and
\* stored_weight(x) <= true_freq(x).
C2_DominanceAsClaimed ==
  IsArithmetic(T) =>
    \A x \in Items :
      (true_freq(x) >= 1 /\ Tracked(x)) =>
        /\ stored_weight(x) >= true_freq(x) - weights[0]
        /\ stored_weight(x) <= true_freq(x)

\* C2 (amended): the stored weight of a tracked value never underestimates
\* its exact count and overestimates it by at most the minimum weight:
\* true_freq(x) <= stored_weight(x) <= true_freq(x) + weights[0].
C2_Dominance ==
  IsArithmetic(T) =>
    \A x \in Items :
      (true_freq(x) >= 1 /\ Tracked(x)) =>
        /\ stored_weight(x) >= true_freq(x)
        /\ stored_weight(x) <= true_freq(x) + weights[0]

\* A tracked value whose stored weight exceeds its exact count: it entered
\* the sketch by replacing the minimum and inherited that weight.
C2_Witness ==
  /\ IsArithmetic(T)
  /\ \E x \in Items :
       /\ true_freq(x) >= 1
       /\ Tracked(x)
       /\ stored_weight(x) > true_freq(x)

C3_CountBounded ==
  IsArithmetic(T) =>
    \A x \in Items :
      true_freq(x) >= 1 =>
        IF Tracked(x) THEN true_freq(x) <= stored_weight(x)
        ELSE true_freq(x) <= weights[0]

C3_EvictsMinimum ==
  IsArithmetic(T) =>
    \A j \in Slots :
      (\A i \in Slots : values'[i] # values[j]) => weights[j] = MinWeight

\* C3: the exact count of every value ever inserted is bounded by a stored
\* weight (its own slot's if tracked, weights[0] if not), and a value that
\* leaves the sketch in a step held, before the step, the minimum weight.
C3_ExactCountBounded == [](C3_CountBounded) /\ [][C3_EvictsMinimum]_vars

\* A value that was inserted and has since been evicted.
C3_Witness ==
  /\ IsArithmetic(T)
  /\ \E x \in Items : true_freq(x) >= 1 /\ ~Tracked(x)

\* C4: after n Inserts every value with true_freq(x) > n/K is tracked.
C4_TopKSoundness ==
  IsArithmetic(T) =>
    \A x \in Items : (true_freq(x) * K > n) => Tracked(x)

\* A heavy value is tracked while an inserted value has been evicted.
C4_Witness ==
  /\ IsArithmetic(T)
  /\ n > K
  /\ \E x \in Items : true_freq(x) * K > n /\ true_freq(x) >= 2
  /\ \E y \in Items : true_freq(y) >= 1 /\ ~Tracked(y)

\* C5: after n Inserts, n - K*weights[0] <= sum(weights) <= n.
C5_WeightSum ==
  /\ SumOver(weights, Slots) <= n
  /\ SumOver(weights, Slots) >= n - K * weights[0]

\* The minimum weight has risen above zero, so the lower bound is below n.
C5_Witness == n > K /\ weights[0] >= 1

----------------------------------------------------------------------------
(* SpaceSaving: float zeros *)

ZeroSlots == {i \in Slots : FloatEqualsZero(values[i])}

\* C6: for floating-point T, Normalized is idempotent and maps -0.0 and +0.0
\* to the same bit pattern; after two Insert(+0.0) and one Insert(-0.0) into
\* a fresh sketch exactly one slot holds 0.0 and its weight is 3; the values
\* array never holds the -0.0 bit pattern and at most one slot holds a zero.
C6_SignedZero ==
  T = "float" =>
    /\ \A v \in DOMAIN freq :
         Normalized(T, Normalized(T, v)) = Normalized(T, v)
    /\ Normalized(T, NegZero) = Normalized(T, kZero)
    /\ (n = 3 /\ freq[kZero] = 2 /\ freq[NegZero] = 1) =>
         /\ Cardinality(ZeroSlots) = 1
         /\ \A i \in ZeroSlots : weights[i] = 3
    /\ \A i \in Slots : values[i] # NegZero
    /\ Cardinality(ZeroSlots) <= 1

\* The stream of +0.0, -0.0, +0.0 (in some order) has been ingested.
C6_Witness ==
  /\ T = "float"
  /\ n = 3
  /\ freq[kZero] = 2
  /\ freq[NegZero] = 1

----------------------------------------------------------------------------
(* SpaceSaving, opaque keys: fingerprint collisions *)

\* the K slots as a bag of (fingerprint, key, weight) triples
SlotBag(h, v, w) ==
  LET triple(i) == <<h[i], v[i], w[i]>>
  IN [tr \in {triple(i) : i \in DOMAIN w} |->
        Cardinality({i \in DOMAIN w : triple(i) = tr})]

\* slots that already hold key v under fingerprint fp
Holding(v, fp) == {j \in Slots : hashes[j] = fp /\ values[j] = v}

\* the bag after slot j has been given key v, fingerprint fp and one more
\* count
Bumped(j, v, fp) ==
  (SlotBag(hashes, values, weights)
     (-) SetToBag({<<hashes[j], values[j], weights[j]>>}))
     (+) SetToBag({<<fp, v, weights[j] + 1>>})

C8_FindVerifiesKey ==
  T = "opaque" =>
    \A v \in DOMAIN freq : \A h \in Hashes128 :
      LET fp == roll_down(h)
          j == FindOpaque(hashes, values, v, fp, lanes, K)
      IN /\ j # K => (j \in Slots /\ hashes[j] = fp /\ values[j] = v)
         /\ Holding(v, fp) # {} => j \in Holding(v, fp)

C8_InsertEffect ==
  \A v \in DOMAIN freq : \A h \in Hashes128 :
    InsertHashed(v, h) =>
      LET fp == roll_down(h)
          after == SlotBag(hashes', values', weights')
      IN IF Holding(v, fp) # {}
           THEN \E j \in Holding(v, fp) : after = Bumped(j, v, fp)
           ELSE after = Bumped(0, v, fp)

\* C8: in the opaque-key sketch Find(value, hash) returns a slot j only when
\* hashes[j] = hash and values[j] = value, and finds such a slot whenever
\* one exists; Insert(v, h) increments the slot holding v under fingerprint
\* h when there is one and otherwise overwrites slot 0, also when other
\* slots hold different keys under the same fingerprint.
C8_NoCollisionMerge == [](C8_FindVerifiesKey) /\ [][C8_InsertEffect]_vars

\* Two counted slots share a fingerprint but hold different keys, and the
\* later one has been incremented again.
C8_Witness ==
  /\ T = "opaque"
  /\ \E i \in Slots : \E j \in Slots :
       /\ i < j
       /\ hashes[i] = hashes[j]
       /\ values[i] # values[j]
       /\ weights[i] >= 1
       /\ weights[j] >= 2

----------------------------------------------------------------------------
(* Scenario 2: capacity overflow, K = 32 *)

\* [1]*100 ++ [2]*50 ++ [3..34] ++ [5]*60
Stream2 ==
  [i \in 1..100 |-> 1] \o [i \in 1..50 |-> 2] \o [i \in 1..32 |-> i + 2]
    \o [i \in 1..60 |-> 5]

\* the key of type T for the integer i of the stream
KeyOf(type, i) == IF type = "float" THEN IntToFloat(i) ELSE i

InitScenario2 ==
  /\ NoCountSketch
  /\ NoKLL
  /\ NoCall
  /\ NoHeapSketch
  /\ calls = {}
  /\ T \in {"int64", "float"}
  /\ lanes = SimdLanes
  /\ values = sequence(T, SimdLanes)
  /\ hashes = <<>>
  /\ weights = ZeroWeights(SimdLanes)
  /\ n = 0
  /\ freq = [x \in {KeyOf(T, i) : i \in 1..34} |-> 0]
  /\ step = 0

IngestStream2 ==
  /\ step < Len(Stream2)
  /\ Insert(KeyOf(T, Stream2[step + 1]))
  /\ step' = step + 1
  /\ UNCHANGED heapVars

NextScenario2 == IngestStream2

SpecScenario2 == InitScenario2 /\ [][NextScenario2]_vars

\* C7: after the stream [1]*100 ++ [2]*50 ++ [3..34] ++ [5]*60 into a fresh
\* arithmetic sketch with K = 32, values contains 5 with weight >= 60, 1 with
\* weight exactly 100, 2 with weight exactly 50, and weights[0] <= 2.
C7_CapacityOverflow ==
  step = Len(Stream2) =>
    /\ Tracked(KeyOf(T, 5)) /\ stored_weight(KeyOf(T, 5)) >= 60
    /\ Tracked(KeyOf(T, 1)) /\ stored_weight(KeyOf(T, 1)) = 100
    /\ Tracked(KeyOf(T, 2)) /\ stored_weight(KeyOf(T, 2)) = 50
    /\ weights[0] <= 2

\* The whole stream has been ingested and the capacity was exceeded: one of
\* the inserted values is no longer tracked.
C7_Witness ==
  /\ step = Len(Stream2)
  /\ K = 32
  /\ \E x \in Items : true_freq(x) >= 1 /\ ~Tracked(x)

----------------------------------------------------------------------------
(* CountSketch *)

\* bits of one machine word; the 128-bit hash <<high, low>> is two words
\* (64 in the source, scaled so that every hash can be enumerated)
WordBits == 5

\* Insert calls explored from the fresh CountSketch
MaxCSInserts == 2

\* the 128-bit hash as a number
Word128(hash) == hash[1] * Pow2(WordBits) + hash[2]

\* static_cast<uint64_t>(hash)
LowerWord(hash) == hash[2]

\* x >> k
ShiftRight(x, k) == x \div Pow2(k)

\* __builtin_ctz(2 * t), t a power of two
hash_bits(tt) == Log2Floor(2 * tt)

\* CountSketch::HashExtract: <<h, sign>> of row j.
HashExtract(hash, j, tt, dd) ==
  LET reduced ==
        IF hash_bits(tt) * dd <= WordBits
          THEN ShiftRight(LowerWord(hash), j * hash_bits(tt)) % tt
          ELSE ShiftRight(Word128(hash), j * hash_bits(tt)) % tt
      h == ShiftRight(reduced, 1)
      g == reduced % 2
      sign == (g * 2) - 1
  IN <<h, sign>>

\* GetCounter that forgets the row offset.
GetCounterIgnoresRow(j, h, tt) == h

\* CountSketch::GetCounter: the index of the counter it refers to.
GetCounter(j, h, tt) == j * tt + h

\* The row loop with = in place of +=.
RECURSIVE InsertRowsOverwrite(_, _, _, _, _, _)
InsertRowsOverwrite(table, acc, hash, j, tt, dd) ==
  IF j < dd
    THEN LET hs == HashExtract(hash, j, tt, dd)
             idx == GetCounter(j, hs[1], tt)
         IN InsertRowsOverwrite(IF idx \in DOMAIN table
                                  THEN [table EXCEPT ![idx] = hs[2]]
                                  ELSE table,
                                Append(acc, <<idx, hs[2]>>), hash, j + 1, tt,
                                dd)
    ELSE [C |-> table, touched |-> acc]

\* for (size_t j = 0; j < d; j++) { auto [h, sign] = HashExtract(hash, j);
\*                                  GetCounter(j, h) += sign; }
RECURSIVE InsertRows(_, _, _, _, _, _)
InsertRows(table, acc, hash, j, tt, dd) ==
  IF j < dd
    THEN LET hs == HashExtract(hash, j, tt, dd)
             idx == GetCounter(j, hs[1], tt)
         IN InsertRows(IF idx \in DOMAIN table
                         THEN [table EXCEPT ![idx] = @ + hs[2]]
                         ELSE table,
                       Append(acc, <<idx, hs[2]>>), hash, j + 1, tt, dd)
    ELSE [C |-> table, touched |-> acc]

\* <<t, d>> of the instantiations explored: 3 * 1 <= WordBits takes the
\* lower-word branch of HashExtract, 3 * 3 > WordBits the 128-bit branch
CSConfigs == {<<4, 1>>, <<4, 3>>}

\* high words whose bits give row 2 of <<4, 3>> the slices 0, 2, 5 and 7
HighWords == {0, 5, 10, 31}

\* low words whose bits 0..2 run through all eight slices of row 0 and whose
\* bits 3..4 run through all four values
LowWords == {0, 5, 11, 14, 18, 23, 25, 28}

Hashes == {<<hi, lo>> : hi \in HighWords, lo \in LowWords}

CSKeys == {42}

\* std::array<int64_t, t * d> C; has no initializer: the counters start with
\* whatever the storage holds (here all zero, all 7, or 0 and -7 alternating)
UninitTables(size) ==
  {[i \in 0..(size - 1) |-> 0], [i \in 0..(size - 1) |-> 7],
   [i \in 0..(size - 1) |-> IF i % 2 = 0 THEN 0 ELSE 0 - 7]}

\* no SpaceSaving sketch is instantiated
NoSpaceSaving ==
  /\ T = "none"
  /\ lanes = 0
  /\ values = <<>>
  /\ weights = <<>>
  /\ hashes = <<>>
  /\ freq = <<>>
  /\ calls = {}

InitCS ==
  /\ NoSpaceSaving
  /\ NoHeapSketch
  /\ NoKLL
  /\ NoCall
  /\ step = 0
  /\ n = 0
  /\ \E cfg \in CSConfigs : t = cfg[1] /\ d = cfg[2]
  /\ C \in UninitTables(t * d)
  /\ touched = <<>>
  /\ inserted = [hash \in Hashes |-> 0]
  /\ C0 = C

\* CountSketch::Insert(const __uint128_t& hash)
CSInsertHash(hash) ==
  /\ LET r == InsertRows(C, <<>>, hash, 0, t, d)
     IN C' = r.C /\ touched' = r.touched
  /\ n' = n + 1
  /\ inserted' = [inserted EXCEPT ![hash] = @ + 1]
  /\ UNCHANGED <<t, d, C0, step, ssVars, heapVars, kllVars, callVars>>

\* CountSketch::Insert(const T&, const __uint128_t& hash)
CSInsertValueHash(value, hash) ==
  /\ LET r == InsertRows(C, <<>>, hash, 0, t, d)
     IN C' = r.C /\ touched' = r.touched
  /\ n' = n + 1
  /\ inserted' = [inserted EXCEPT ![hash] = @ + 1]
  /\ UNCHANGED <<t, d, C0, step, ssVars, heapVars, kllVars, callVars>>

\* CountSketch::Insert(const T& value): hash = detail::Hash(value), which
\* can be any 128-bit word; then Insert(hash).
CSInsertValue(value) ==
  \E hash \in Hashes : CSInsertHash(hash)

CSInsertHashAny == n < MaxCSInserts /\ \E hash \in Hashes : CSInsertHash(hash)

CSInsertValueHashAny ==
  /\ n < MaxCSInserts
  /\ \E value \in CSKeys : \E hash \in Hashes : CSInsertValueHash(value, hash)

CSInsertValueAny == n < MaxCSInserts /\ \E value \in CSKeys : CSInsertValue(value)

NextCS == CSInsertValueAny \/ CSInsertHashAny \/ CSInsertValueHashAny

SpecCS == InitCS /\ [][NextCS]_vars

Rows == 0..(d - 1)

Counters == DOMAIN C

\* the counters of row j
RowRange(j) == (j * t)..((j + 1) * t - 1)

Changed == {i \in Counters : C'[i] # C[i]}

C9_RoutingInsert ==
  \A hash \in Hashes :
    CSInsertHash(hash) =>
      \A j \in Rows :
        LET B == Log2Floor(2 * t)
            s == ShiftRight(Word128(hash), j * B) % (2 * t)
            h == ShiftRight(s, 1)
            g == 2 * (s % 2) - 1
        IN C'[j * t + h] = C[j * t + h] + g

\* C9 (as claimed): Insert adds g_j to C[j*t + h_j] for every row j, where
\* B = log2(2t), s_j = (H >> (j*B)) mod 2t, h_j = s_j >> 1 and
\* g_j = 2*(s_j & 1) - 1.
C9_Routing == [][C9_RoutingInsert]_vars

C10_InsertFrame ==
  (n' = n + 1) =>
    /\ DOMAIN C' = Counters
    /\ Cardinality(Changed) = d
    /\ \A j \in Rows :
         \E i \in RowRange(j) :
           /\ Changed \cap RowRange(j) = {i}
           /\ C'[i] - C[i] \in {1, 0 - 1}
    /\ Len(touched') = d
    /\ \A k \in 1..Len(touched') :
         /\ touched'[k][1] \in RowRange(k - 1)
         /\ touched'[k][1] \in Counters

\* C10: every Insert (all three overloads) changes exactly d counters, one in
\* each row j at an index inside [j*t, (j+1)*t), each by +1 or -1; all other
\* counters stay as they were and no access falls outside the table.
C10_ExactlyDCounters == [][C10_InsertFrame]_vars

\* An Insert into the three-row sketch has touched three counters, with both
\* signs.
C10_Witness ==
  /\ d = 3
  /\ n >= 1
  /\ Len(touched) = 3
  /\ \E k \in 1..3 : touched[k][2] = 1
  /\ \E k \in 1..3 : touched[k][2] = 0 - 1

----------------------------------------------------------------------------
(* CountSketch: initial counters, counter bound, estimator identity *)

Abs(x) == IF x < 0 THEN 0 - x ELSE x

\* C11: a freshly created CountSketch (Sketch sketch;) has every counter
\* C[0 .. d*t) equal to zero before the first Insert.
C11_FreshCountersZero == (n = 0) => \A i \in Counters : C[i] = 0

\* C12: starting from a fresh CountSketch, after n Inserts every counter
\* satisfies |C[i]| <= n.
C12_CounterBound == \A i \in Counters : Abs(C[i]) <= n

\* the column and the sign HashExtract gives the item with this hash in row j
h_(j, hash) == HashExtract(hash, j, t, d)[1]

g_(j, hash) == HashExtract(hash, j, t, d)[2]

\* the inserted items, as hashes
InsertedItems == {hash \in DOMAIN inserted : inserted[hash] > 0}

\* sum of g_j(y) over the inserted items y, with multiplicity, whose row-j
\* column is c
SignedCount(j, c) ==
  LET S == {y \in InsertedItems : h_(j, y) = c}
  IN SumOver([y \in S |-> inserted[y] * g_(j, y)], S)

StartedFromZero == \A i \in DOMAIN C0 : C0[i] = 0

----------------------------------------------------------------------------
(* final::KarninLangLiberty *)

\* kll_constants::DEFAULT_M and the m_(8) of the constructor, scaled
ScaledM == 2
\* kll_constants::MIN_K = DEFAULT_M, scaled with it
MIN_K == ScaledM
\* kll_constants::MAX_K = (1 << 16) - 1, the largest uint16_t
MAX_K == 65535
\* KarninLangLiberty::kMaxNumLevels
kMaxNumLevels == 60

\* Insert calls explored from the fresh KLL sketch
MaxKLLInserts == 13

\* the constructor arguments explored: below MIN_K, MIN_K, and the two next
KChoices == (MIN_K - 2)..(MIN_K + 2)

Uint8(x) == x % 256

Uint16(x) == x % 65536

\* Natural numbers beyond 2^31: sequences of decimal limbs below 10000, the
\* least significant limb first.
RECURSIVE BigOf(_)
BigOf(x) == IF x < 10000 THEN <<x>> ELSE <<x % 10000>> \o BigOf(x \div 10000)

\* a * m from limb i on, m below 2^17
RECURSIVE BigTimesFrom(_, _, _, _)
BigTimesFrom(a, m, i, carry) ==
  IF i > Len(a) THEN (IF carry = 0 THEN <<>> ELSE BigOf(carry))
  ELSE <<(a[i] * m + carry) % 10000>>
         \o BigTimesFrom(a, m, i + 1, (a[i] * m + carry) \div 10000)

BigTimes(a, m) == BigTimesFrom(a, m, 1, 0)

\* the value of an expression, computed once
ValueOf(v) == CHOOSE r \in {v} : TRUE

RECURSIVE SmallPow(_, _)
SmallPow(b, e) == IF e = 0 THEN 1 ELSE b * SmallPow(b, e - 1)

\* b^e for b = 2 or 3, eight factors at a time
RECURSIVE BigPow(_, _)
BigPow(b, e) ==
  IF e < 8 THEN BigOf(SmallPow(b, e))
  ELSE BigTimes(ValueOf(BigPow(b, e - 8)), SmallPow(b, 8))

BigLimb(a, i) == IF i <= Len(a) THEN a[i] ELSE 0

\* a <= b, decided from limb i down
RECURSIVE BigLeqFrom(_, _, _)
BigLeqFrom(a, b, i) ==
  IF i = 0 THEN TRUE
  ELSE IF BigLimb(a, i) # BigLimb(b, i) THEN BigLimb(a, i) < BigLimb(b, i)
  ELSE BigLeqFrom(a, b, i - 1)

BigLeq(a, b) == BigLeqFrom(a, b, IF Len(a) > Len(b) THEN Len(a) ELSE Len(b))

\* the integer division num / den of uint64_t values, for a quotient known
\* to lie in lo..hi
RECURSIVE BigDiv(_, _, _, _)
BigDiv(num, den, lo, hi) ==
  IF lo >= hi THEN lo
  ELSE IF BigLeq(BigTimes(den, (lo + hi + 1) \div 2), num)
    THEN BigDiv(num, den, (lo + hi + 1) \div 2, hi)
  ELSE BigDiv(num, den, lo, ((lo + hi + 1) \div 2) - 1)

\* detail::powers_of_three[depth] of const.hpp
powers_of_three(depth) == BigPow(3, depth)

\* int_cap_aux_aux that drops the rounding: tmp >> 1 in place of
\* (tmp + 1) >> 1.
IntCapAuxAuxTruncated(k, depth) ==
  LET twok == k * 2
      tmp == BigDiv(ValueOf(BigTimes(BigPow(2, depth), twok)),
                    ValueOf(powers_of_three(depth)), 0, twok)
      result == tmp \div 2
  IN Uint16(result)

\* kll int_cap_aux_aux: round(k * (2/3)^depth), as a uint16_t; depth is at
\* most 30 in every call, so twok << depth stays below 2^64
int_cap_aux_aux(k, depth) ==
  LET twok == k * 2
      tmp == BigDiv(ValueOf(BigTimes(BigPow(2, depth), twok)),
                    ValueOf(powers_of_three(depth)), 0, twok)
      result == (tmp + 1) \div 2
  IN Uint16(result)

int_cap_aux(k, depth) ==
  IF depth <= 30 THEN int_cap_aux_aux(k, depth)
  ELSE LET half == depth \div 2
           rest == depth - half
           tmp == int_cap_aux_aux(k, half)
       IN int_cap_aux_aux(tmp, rest)

MaxOf(a, b) == IF a >= b THEN a ELSE b

\* the second loop of compute_level_capacities, from this depth on
RECURSIVE FillCapacities(_, _, _, _)
FillCapacities(table, k, min_wid, depth) ==
  IF depth < kMaxNumLevels
    THEN LET cap == MaxOf(min_wid, int_cap_aux(k, depth))
             filled == [table EXCEPT ![depth] = cap]
         IN IF cap = min_wid THEN filled
            ELSE FillCapacities(filled, k, min_wid, depth + 1)
    ELSE table

\* compute_level_capacities with every capacity left at min_wid.
ComputeLevelCapacitiesFlat(k, min_wid) ==
  [depth \in 0..(kMaxNumLevels - 1) |-> min_wid]

compute_level_capacities(k, min_wid) ==
  FillCapacities([depth \in 0..(kMaxNumLevels - 1) |-> min_wid], k, min_wid, 0)

\* level_capacity reads the member table; the table is a parameter here
\* because the constructor calls it before the member is initialized
level_capacity(table, numLevels, height) ==
  table[Uint8(numLevels - height - 1)]

RECURSIVE TotalFrom(_, _, _)
TotalFrom(table, num_levels, h) ==
  IF h < num_levels
    THEN level_capacity(table, num_levels, h) + TotalFrom(table, num_levels, h + 1)
    ELSE 0

compute_total_capacity(table, num_levels) == TotalFrom(table, num_levels, 0)

\* what the storage of the member level_capacities can hold before its own
\* initializer runs: zeroes, or the table a sketch with the same k left there
UninitCapacities(k) ==
  {[depth \in 0..(kMaxNumLevels - 1) |-> 0], compute_level_capacities(k, ScaledM)}

\* the content of a slot of the storage that holds no constructed item
Dead(type) == IF type = "float" THEN FloatBits(2, 0) ELSE 0 - 1

\* std::isnan on a float bit pattern: exponent all ones, mantissa not zero
IsNaN(x) == x.mag > 2139095040

\* check_update_item that lets every item pass.
CheckUpdateItemAcceptsAll(type, item) == TRUE

\* check_update_item: !std::isnan(item) for floating point T, true otherwise
check_update_item(type, item) == IF type = "float" THEN ~IsNaN(item) ELSE TRUE

\* the real number order of two float bit patterns that are not NaN
FloatOrder(x) == IF x.sign = 1 THEN 0 - x.mag ELSE x.mag

\* comparator_ = std::less<T>
comparator_(type, a, b) ==
  IF type = "float"
    THEN ~IsNaN(a) /\ ~IsNaN(b) /\ FloatOrder(a) < FloatOrder(b)
    ELSE a < b

RECURSIVE InsertInOrder(_, _, _)
InsertInOrder(type, seq, x) ==
  IF seq = <<>> THEN <<x>>
  ELSE IF comparator_(type, x, Head(seq)) THEN <<x>> \o seq
  ELSE <<Head(seq)>> \o InsertInOrder(type, Tail(seq), x)

RECURSIVE SortItems(_, _)
SortItems(type, seq) ==
  IF seq = <<>> THEN <<>>
  ELSE InsertInOrder(type, SortItems(type, Tail(seq)), Head(seq))

\* std::sort(items_.begin() + beg, items_.begin() + beg + pop, comparator_)
StdSort(type, buf, beg, pop) ==
  LET sorted == SortItems(type, [i \in 1..pop |-> buf[beg + i - 1]])
  IN [i \in DOMAIN buf |->
        IF i >= beg /\ i < beg + pop THEN sorted[i - beg + 1] ELSE buf[i]]

\* the loop of randomly_halve_down, from index i on
RECURSIVE HalveDownLoop(_, _, _, _)
HalveDownLoop(buf, i, j, lim) ==
  IF i < lim
    THEN HalveDownLoop([buf EXCEPT ![i] = buf[j]], i + 1, j + 2, lim)
    ELSE buf

randomly_halve_down(buf, start, length, offset) ==
  LET half_length == length \div 2
  IN HalveDownLoop(buf, start, start + offset, start + half_length)

\* randomly_halve_up that gathers the kept items at the start of the run.
HalveUpIntoLowerPart(buf, start, length, offset) ==
  LET half_length == length \div 2
  IN HalveDownLoop(buf, start, start + offset, start + half_length)

\* HalveUpLoop that keeps the upper half of the run as it stands instead of
\* every second item.
RECURSIVE HalveUpLoopUpperHalf(_, _, _, _)
HalveUpLoopUpperHalf(buf, i, j, lim) ==
  IF i >= lim
    THEN HalveUpLoopUpperHalf([buf EXCEPT ![i] = buf[i]], i - 1, j - 1, lim)
    ELSE buf

\* the loop of randomly_halve_up, from index i down
RECURSIVE HalveUpLoop(_, _, _, _)
HalveUpLoop(buf, i, j, lim) ==
  IF i >= lim
    THEN HalveUpLoop([buf EXCEPT ![i] = buf[j]], i - 1, j - 2, lim)
    ELSE buf

\* randomly_halve_up that copies from the front of the run, so that it reads
\* slots of the upper half it has already written.
HalveUpFromFront(buf, start, length, offset) ==
  LET half_length == length \div 2
  IN HalveDownLoop(buf, start + half_length, start + offset, start + length)

randomly_halve_up(buf, start, length, offset) ==
  LET half_length == length \div 2
  IN HalveUpLoop(buf, (start + length) - 1, (start + length) - 1 - offset,
                 start + half_length)

\* the loop of kll_helper::merge_sorted_arrays, from index c on
RECURSIVE MergeLoop(_, _, _, _, _, _, _, _)
MergeLoop(type, buf, a, b, c, lim_a, lim_b, lim_c) ==
  IF c < lim_c
    THEN IF a = lim_a
           THEN MergeLoop(type, [buf EXCEPT ![c] = buf[b]], a, b + 1, c + 1,
                          lim_a, lim_b, lim_c)
         ELSE IF b = lim_b
           THEN MergeLoop(type, [buf EXCEPT ![c] = buf[a]], a + 1, b, c + 1,
                          lim_a, lim_b, lim_c)
         ELSE IF comparator_(type, buf[a], buf[b])
           THEN MergeLoop(type, [buf EXCEPT ![c] = buf[a]], a + 1, b, c + 1,
                          lim_a, lim_b, lim_c)
         ELSE MergeLoop(type, [buf EXCEPT ![c] = buf[b]], a, b + 1, c + 1,
                        lim_a, lim_b, lim_c)
    ELSE buf

\* merge_sorted_arrays that copies b behind a without comparing.
MergeConcatenated(type, buf, start_a, len_a, start_b, len_b, start_c) ==
  [i \in DOMAIN buf |->
     IF i >= start_c /\ i < start_c + len_a THEN buf[start_a + (i - start_c)]
     ELSE buf[i]]

merge_sorted_arrays(type, buf, start_a, len_a, start_b, len_b, start_c) ==
  MergeLoop(type, buf, start_a, start_b, start_c, start_a + len_a,
            start_b + len_b, start_c + len_a + len_b)

\* std::move_backward(first, first + amount, d_last), element idx of the range
RECURSIVE MoveBackward(_, _, _, _)
MoveBackward(buf, first, shift, idx) ==
  IF idx >= 0
    THEN MoveBackward([buf EXCEPT ![first + shift + idx] = buf[first + idx]],
                      first, shift, idx - 1)
    ELSE buf

\* find_level_to_compact, its loop from this level on
RECURSIVE FindLevelFrom(_, _, _, _)
FindLevelFrom(levels, table, num_levels, level) ==
  LET pop == levels[level + 1] - levels[level]
      cap == level_capacity(table, num_levels, level)
  IN IF pop >= cap THEN level
     ELSE FindLevelFrom(levels, table, num_levels, level + 1)

find_level_to_compact(levels, table, num_levels) ==
  FindLevelFrom(levels, table, num_levels, 0)

\* add_empty_top_level_to_completely_full_sketch that grows the span by the
\* capacity of the present top level.
AddTopLevelOldDepth(type, st, table) ==
  LET cur_total_cap == st.levels[st.num_levels]
      delta_cap == level_capacity(table, st.num_levels, 0)
      new_total_cap == cur_total_cap + delta_cap
      num_levels == Uint8(st.num_levels + 1)
  IN [levels |-> [i \in DOMAIN st.levels |->
                    IF i <= st.num_levels THEN st.levels[i] + delta_cap
                    ELSE IF i = num_levels THEN new_total_cap
                    ELSE st.levels[i]],
      items |-> [i \in 0..(new_total_cap - 1) |->
                   IF i < delta_cap THEN Dead(type) ELSE st.items[i - delta_cap]],
      num_levels |-> num_levels,
      begin |-> st.max_capacity - new_total_cap,
      max_capacity |-> st.max_capacity]

\* add_empty_top_level_to_completely_full_sketch.  The span grows by
\* delta_cap slots at its front, so the item at index i is found at
\* i + delta_cap afterwards.
add_empty_top_level_to_completely_full_sketch(type, st, table) ==
  LET cur_total_cap == st.levels[st.num_levels]
      new_levels_size == Uint8(st.num_levels + 2)
      size == Cardinality(DOMAIN st.levels)
      resized == IF size < new_levels_size
                   THEN [i \in 0..(new_levels_size - 1) |->
                           IF i < size THEN st.levels[i] ELSE 0]
                   ELSE st.levels
      delta_cap == level_capacity(table, st.num_levels + 1, 0)
      new_total_cap == cur_total_cap + delta_cap
      span == [i \in 0..(new_total_cap - 1) |->
                 IF i < delta_cap THEN Dead(type) ELSE st.items[i - delta_cap]]
      shifted == [i \in DOMAIN resized |->
                    IF i <= st.num_levels THEN resized[i] + delta_cap
                    ELSE resized[i]]
      num_levels == Uint8(st.num_levels + 1)
  IN [levels |-> [shifted EXCEPT ![num_levels] = new_total_cap],
      items |-> span,
      num_levels |-> num_levels,
      begin |-> st.max_capacity - new_total_cap,
      max_capacity |-> st.max_capacity]

\* the sort of level 0 and the halving, with the merge into the level above
HalveLevel(type, buf, level, sorted, offset, adj_beg, adj_pop, raw_lim, pop_above) ==
  IF pop_above = 0
    THEN randomly_halve_up(
           IF level = 0 /\ ~sorted THEN StdSort(type, buf, adj_beg, adj_pop)
           ELSE buf,
           adj_beg, adj_pop, offset)
    ELSE merge_sorted_arrays(
           type,
           randomly_halve_down(
             IF level = 0 /\ ~sorted THEN StdSort(type, buf, adj_beg, adj_pop)
             ELSE buf,
             adj_beg, adj_pop, offset),
           adj_beg, adj_pop \div 2, raw_lim, pop_above,
           adj_beg + (adj_pop \div 2))

\* AdjustBoundaries that empties the level also when its population was odd.
AdjustBoundariesDropLeftover(levels, level, half_adj_pop, odd_pop) ==
  [levels EXCEPT
     ![level + 1] = @ - half_adj_pop,
     ![level] = levels[level + 1] - half_adj_pop]

\* levels_[level + 1] -= half_adj_pop; levels_[level] = levels_[level + 1] - 1
\* when the population was odd, levels_[level + 1] otherwise
AdjustBoundaries(levels, level, half_adj_pop, odd_pop) ==
  [levels EXCEPT
     ![level + 1] = @ - half_adj_pop,
     ![level] = IF odd_pop THEN levels[level + 1] - half_adj_pop - 1
                ELSE levels[level + 1] - half_adj_pop]

\* items_[levels_[level]] = std::move(items_[raw_beg]) for the leftover item
MoveLeftover(buf, odd_pop, to, raw_beg) ==
  IF odd_pop THEN [buf EXCEPT ![to] = buf[raw_beg]] ELSE buf

\* The destroy loop running from the start of the span, not from destroy_beg.
DestroyItemsFromZero(type, buf, destroy_beg, half_adj_pop) ==
  [i \in DOMAIN buf |-> IF i < half_adj_pop THEN Dead(type) ELSE buf[i]]

\* for (i = 0; i < half_adj_pop; i++) items_[i + destroy_beg].~T()
DestroyItems(type, buf, destroy_beg, half_adj_pop) ==
  [i \in DOMAIN buf |->
     IF i >= destroy_beg /\ i < destroy_beg + half_adj_pop THEN Dead(type)
     ELSE buf[i]]

\* the shift of the levels below, and the destruction of the freed slots
FinishCompaction(type, buf, levels, level, raw_beg, odd_pop, half_adj_pop, destroy_beg, num_levels, begin) ==
  [levels |->
     IF level > 0
       THEN [lvl \in DOMAIN levels |->
               IF lvl < level THEN levels[lvl] + half_adj_pop ELSE levels[lvl]]
       ELSE levels,
   items |->
     DestroyItems(
       type,
       IF level > 0
         THEN MoveBackward(MoveLeftover(buf, odd_pop, levels[level], raw_beg),
                           levels[0], half_adj_pop, raw_beg - levels[0] - 1)
         ELSE MoveLeftover(buf, odd_pop, levels[level], raw_beg),
       destroy_beg, half_adj_pop),
   num_levels |-> num_levels,
   begin |-> begin]

\* compress_while_updating once the level is found and the top level added
CompactLevel(type, st, level, sorted, offset) ==
  LET raw_beg == st.levels[level]
      raw_lim == st.levels[level + 1]
      pop_above == st.levels[level + 2] - raw_lim
      raw_pop == raw_lim - raw_beg
      odd_pop == raw_pop % 2 = 1
      adj_beg == IF odd_pop THEN raw_beg + 1 ELSE raw_beg
      adj_pop == IF odd_pop THEN raw_pop - 1 ELSE raw_pop
      half_adj_pop == adj_pop \div 2
      destroy_beg == st.levels[0]
  IN FinishCompaction(
       type,
       HalveLevel(type, st.items, level, sorted, offset, adj_beg, adj_pop,
                  raw_lim, pop_above),
       AdjustBoundaries(st.levels, level, half_adj_pop, odd_pop),
       level, raw_beg, odd_pop, half_adj_pop, destroy_beg, st.num_levels,
       st.begin)

CompressAt(type, st0, table, sorted, offset, level) ==
  CompactLevel(type,
               IF level = st0.num_levels - 1
                 THEN add_empty_top_level_to_completely_full_sketch(type, st0,
                                                                    table)
                 ELSE st0,
               level, sorted, offset)

compress_while_updating(type, st0, table, sorted, offset) ==
  CompressAt(type, st0, table, sorted, offset,
             find_level_to_compact(st0.levels, table, st0.num_levels))

\* The tail of internal_update with is_level_zero_sorted_ = true.
CountAndDecrementFlagSet(st, count) ==
  [levels |-> [st.levels EXCEPT ![0] = @ - 1],
   items |-> st.items,
   num_levels |-> st.num_levels,
   n |-> count,
   is_level_zero_sorted |-> TRUE,
   begin |-> st.begin,
   index |-> st.levels[0] - 1]

\* n_++; is_level_zero_sorted_ = false; return --levels_[0];
CountAndDecrement(st, count) ==
  [levels |-> [st.levels EXCEPT ![0] = @ - 1],
   items |-> st.items,
   num_levels |-> st.num_levels,
   n |-> count,
   is_level_zero_sorted |-> FALSE,
   begin |-> st.begin,
   index |-> st.levels[0] - 1]

\* internal_update that leaves n_ as it was.
InternalUpdateNoCount(type, st0, table, sorted, offset) ==
  CountAndDecrement(
    IF st0.levels[0] = 0
      THEN compress_while_updating(type, st0, table, sorted, offset)
      ELSE st0,
    st0.n)

\* internal_update: the sketch after it and the index it returns
internal_update(type, st0, table, sorted, offset) ==
  CountAndDecrement(
    IF st0.levels[0] = 0
      THEN compress_while_updating(type, st0, table, sorted, offset)
      ELSE st0,
    st0.n + 1)

\* the items offered to KarninLangLiberty::Insert
KLLKeys(type) ==
  IF type = "float" THEN {IntToFloat(i) : i \in 1..3} \cup {QuietNaN}
  ELSE 1..3

\* the constructor that omits the range check of k.
ConstructorUnchecked(type, k, uninit) ==
  [thrown |-> "none",
   k |-> k,
   num_levels |-> 1,
   is_level_zero_sorted |-> FALSE,
   n |-> 0,
   levels |-> [i \in 0..(kMaxNumLevels - 1) |-> IF i <= 1 THEN k ELSE 0],
   max_capacity |-> compute_total_capacity(uninit, kMaxNumLevels),
   level_capacities |-> compute_level_capacities(k, ScaledM),
   items |-> [i \in 0..(k - 1) |-> Dead(type)],
   items_storage |-> 1,
   items_begin |-> compute_total_capacity(uninit, kMaxNumLevels) - k]

\* KarninLangLiberty(uint16_t k): the members are initialized in the order of
\* their declaration, max_capacity_ (declared before levels_) from the
\* storage of level_capacities (declared last) as it is at that moment; then
\* the range check, then levels_[0] = levels_[1] = k and the span of k slots.
Constructor(type, k, uninit) ==
  IF k < MIN_K \/ k > MAX_K
    THEN [thrown |-> "invalid_argument",
          k |-> 0,
          num_levels |-> 0,
          is_level_zero_sorted |-> FALSE,
          n |-> 0,
          levels |-> <<>>,
          max_capacity |-> 0,
          level_capacities |-> <<>>,
          items |-> <<>>,
          items_storage |-> 0,
          items_begin |-> 0]
    ELSE [thrown |-> "none",
          k |-> k,
          num_levels |-> 1,
          is_level_zero_sorted |-> FALSE,
          n |-> 0,
          levels |-> [i \in 0..(kMaxNumLevels - 1) |-> IF i <= 1 THEN k ELSE 0],
          max_capacity |-> compute_total_capacity(uninit, kMaxNumLevels),
          level_capacities |-> compute_level_capacities(k, ScaledM),
          items |-> [i \in 0..(k - 1) |-> Dead(type)],
          items_storage |-> 1,
          items_begin |-> compute_total_capacity(uninit, kMaxNumLevels) - k]

InitKLL ==
  /\ NoCountSketch
  /\ NoCall
  /\ NoHeapSketch
  /\ calls = {}
  /\ T \in {"int64", "float"}
  /\ lanes = 0
  /\ values = <<>>
  /\ weights = <<>>
  /\ hashes = <<>>
  /\ n = 0
  /\ step = 0
  /\ freq = <<>>
  /\ \E k \in KChoices :
       \E uninit \in UninitCapacities(Uint16(k)) :
         LET sk == Constructor(T, Uint16(k), uninit)
         IN /\ thrown = sk.thrown
            /\ k_ = sk.k
            /\ num_levels_ = sk.num_levels
            /\ is_level_zero_sorted_ = sk.is_level_zero_sorted
            /\ n_ = sk.n
            /\ levels_ = sk.levels
            /\ max_capacity_ = sk.max_capacity
            /\ level_capacities = sk.level_capacities
            /\ items_ = sk.items
            /\ items_storage_ = sk.items_storage
            /\ items_begin = sk.items_begin
  /\ twin = <<>>
  /\ same_bits = TRUE

\* new (&items_[index]) T(item), index and the sketch st being what
\* internal_update has returned
PlaceItem(st, item) ==
  /\ levels_' = st.levels
  /\ items_' = [st.items EXCEPT ![st.index] = item]
  /\ num_levels_' = st.num_levels
  /\ n_' = st.n
  /\ is_level_zero_sorted_' = st.is_level_zero_sorted
  /\ items_begin' = st.begin

\* KarninLangLiberty::Insert(x) -> update(x); offset is the bit random_bit()
\* gives when the update compacts
update(item, offset) ==
  /\ thrown = "none"
  /\ IF check_update_item(T, item)
       THEN \E st \in {internal_update(
                           T,
                           [levels |-> levels_, items |-> items_,
                            num_levels |-> num_levels_, n |-> n_,
                            begin |-> items_begin,
                            max_capacity |-> max_capacity_],
                           level_capacities, is_level_zero_sorted_, offset)} :
               PlaceItem(st, item)
       ELSE UNCHANGED <<levels_, items_, num_levels_, n_, is_level_zero_sorted_,
                        items_begin>>
  /\ n' = n + 1
  /\ UNCHANGED <<k_, max_capacity_, level_capacities, thrown, items_storage_>>
  /\ UNCHANGED <<T, lanes, values, weights, hashes, freq, calls, step, heapVars,
               csVars, callVars>>

KLLInsert ==
  /\ n < MaxKLLInserts
  /\ \E item \in KLLKeys(T) : \E offset \in {0, 1} : update(item, offset)
  /\ UNCHANGED <<twin, same_bits>>

NextKLL == KLLInsert

SpecKLL == InitKLL /\ [][NextKLL]_vars

----------------------------------------------------------------------------
(* KLL: construction *)

Constructed == thrown = "none"

\* C14: constructing with k outside [MIN_K, MAX_K] fails with
\* std::invalid_argument and no sketch comes into being; with any k inside
\* the range construction succeeds and yields num_levels = 1, n = 0,
\* levels[0] = levels[1] = k (level 0 empty) and is_level_zero_sorted = false.
C14_Construction ==
  (n = 0) =>
    /\ \A k \in KChoices : \A uninit \in UninitCapacities(Uint16(k)) :
         LET sk == Constructor(T, Uint16(k), uninit)
         IN IF k < MIN_K \/ k > MAX_K
              THEN sk.thrown = "invalid_argument" /\ sk.levels = <<>>
              ELSE /\ sk.thrown = "none"
                   /\ sk.k = k
                   /\ sk.num_levels = 1
                   /\ sk.n = 0
                   /\ sk.levels[0] = k /\ sk.levels[1] = k
                   /\ sk.is_level_zero_sorted = FALSE
    /\ IF Constructed
         THEN /\ k_ \in MIN_K..MAX_K
              /\ num_levels_ = 1
              /\ n_ = 0
              /\ levels_[0] = k_ /\ levels_[1] = k_
              /\ is_level_zero_sorted_ = FALSE
         ELSE thrown = "invalid_argument" /\ levels_ = <<>> /\ items_ = <<>>

\* a sketch constructed with the smallest admissible k, before any Insert
C14_Witness ==
  /\ n = 0
  /\ Constructed
  /\ k_ = MIN_K
  /\ levels_[0] = MIN_K /\ levels_[1] = MIN_K
  /\ num_levels_ = 1

----------------------------------------------------------------------------
(* KLL: Insert *)

KLLFields ==
  <<n_, num_levels_, levels_, items_, is_level_zero_sorted_, items_begin>>

C15_Step ==
  /\ \A item \in KLLKeys(T) : \A offset \in {0, 1} :
       IF T = "float" /\ IsNaN(item)
         THEN update(item, offset) => UNCHANGED KLLFields
         ELSE levels_[0] > 0 =>
                (update(item, offset) =>
                   /\ n_' = n_ + 1
                   /\ num_levels_' = num_levels_
                   /\ levels_' = [levels_ EXCEPT ![0] = @ - 1]
                   /\ items_' = [items_ EXCEPT ![levels_[0] - 1] = item])
  /\ n_' \in {n_, n_ + 1}
  /\ (n_' = n_) => UNCHANGED KLLFields

\* C15: for float T, Insert(NaN) is dropped: n, num_levels, levels, items and
\* is_level_zero_sorted stay as they were and nothing is compacted; every
\* other item is counted and stored, so that after [1.0, NaN, 2.0, NaN, 3.0]
\* n is 3 and the retained items are 1.0, 2.0, 3.0.
C15_NaNDropped == [][C15_Step]_vars

\* Five Insert calls, two of them with NaN, left n_ = 3 and exactly the items
\* 1.0, 2.0, 3.0 in level 0.
C15_Witness ==
  /\ T = "float"
  /\ Constructed
  /\ n = 5
  /\ n_ = 3
  /\ num_levels_ = 1
  /\ levels_[1] - levels_[0] = 3
  /\ items_[levels_[0]] = IntToFloat(3)
  /\ items_[levels_[0] + 1] = IntToFloat(2)
  /\ items_[levels_[0] + 2] = IntToFloat(1)

\* the levels of the sketch, and the number of items level l holds
Levels == 0..(num_levels_ - 1)

Pop(l) == levels_[l + 1] - levels_[l]

\* cap(l): the capacity of level l while the sketch has num_levels_ levels
Cap(l) == level_capacity(level_capacities, num_levels_, l)

\* C16: 0 <= levels[0] <= levels[1] <= ... <= levels[num_levels] <=
\* max_capacity after construction and after every Insert; the decrement of
\* levels[0] never wraps below zero.
C16_LevelsMonotone ==
  Constructed =>
    /\ 0 <= levels_[0]
    /\ \A l \in Levels : levels_[l] <= levels_[l + 1]
    /\ levels_[num_levels_] <= max_capacity_

\* C17: every level l with 0 < l < num_levels is sorted ascending under the
\* comparator.
C17_UpperLevelsSorted ==
  Constructed =>
    \A l \in Levels \ {0} :
      \A i \in levels_[l]..(levels_[l + 1] - 2) :
        ~comparator_(T, items_[i + 1], items_[i])

\* Level 1 holds at least three items, not all equal, above a level 0 and
\* below a level 2 that both hold items.
C17_Witness ==
  /\ Constructed
  /\ num_levels_ >= 3
  /\ Pop(0) >= 1
  /\ Pop(2) >= 1
  /\ Pop(1) >= 3
  /\ comparator_(T, items_[levels_[1]], items_[levels_[2] - 1])

\* C18 (as claimed): at method boundaries the population of every level l is
\* at most cap(l) = level_capacities[num_levels - l - 1].
C18_LevelWithinCapacity ==
  Constructed => \A l \in Levels : Pop(l) <= Cap(l)

\* C18 (amended): at method boundaries the populations of all levels together
\* are at most the capacities of all levels together, which is
\* levels[num_levels]; one level may hold more than its cap(l).
C18_TotalWithinCapacity ==
  Constructed =>
    /\ levels_[num_levels_] = compute_total_capacity(level_capacities, num_levels_)
    /\ levels_[num_levels_] - levels_[0] <= levels_[num_levels_]
    /\ levels_[0] >= 0

\* Level 1 of a three-level sketch holds more items than its capacity.
C18_Witness ==
  /\ Constructed
  /\ num_levels_ >= 3
  /\ Pop(1) > Cap(1)

RECURSIVE WeightFrom(_)
WeightFrom(l) ==
  IF l < num_levels_ THEN Pow2(l) * Pop(l) + WeightFrom(l + 1) ELSE 0

\* C19: the sum over the levels l of 2^l * (levels[l+1] - levels[l]) is n.
C19_WeightConservation == Constructed => WeightFrom(0) = n_

\* Items of weight 1, 2 and 4 are retained and a level below the top was
\* left with an odd item.
C19_Witness ==
  /\ Constructed
  /\ num_levels_ >= 3
  /\ Pop(0) >= 1 /\ Pop(1) >= 1 /\ Pop(2) >= 1
  /\ n_ > Pop(0) + Pop(1) + Pop(2)

\* C20: max_capacity is the sum over depth 0..59 of the precomputed level
\* capacities for the given k.
C20_MaxCapacity ==
  Constructed =>
    max_capacity_ = compute_total_capacity(level_capacities, kMaxNumLevels)

----------------------------------------------------------------------------
(* KLL: storage, level-0 flag, totality *)

\* the span items_ is the last levels_[num_levels_] items of the storage
\* block of max_capacity_ items the constructor allocated
SpanIsSuffix ==
  /\ items_storage_ = 1
  /\ DOMAIN items_ = 0..(levels_[num_levels_] - 1)
  /\ items_begin = max_capacity_ - levels_[num_levels_]
  /\ items_begin >= 0

\* C21: the items storage is allocated once, in the constructor; no Insert
\* allocates or relocates it, max_capacity and the storage base never change,
\* and the in-use view is always the suffix of the storage of length
\* levels[num_levels]: storage[max_capacity - levels[num_levels] ..
\* max_capacity).
C21_SingleAllocation ==
  /\ [](Constructed => SpanIsSuffix)
  /\ [][UNCHANGED <<max_capacity_, items_storage_>>]_vars

\* level l is in ascending order under the comparator
LevelSorted(l) ==
  \A i \in levels_[l]..(levels_[l + 1] - 2) :
    ~comparator_(T, items_[i + 1], items_[i])

\* C22 (as claimed): at every method boundary level 0 is sorted in ascending
\* order if and only if is_level_zero_sorted is true.
C22_FlagIffSorted ==
  Constructed => (LevelSorted(0) <=> is_level_zero_sorted_)

\* C22 (amended): at every method boundary is_level_zero_sorted is false,
\* whether level 0 is in ascending order or not; so the flag being true
\* implies a sorted level 0, and not conversely.
C22_FlagImpliesSorted ==
  Constructed =>
    /\ is_level_zero_sorted_ = FALSE
    /\ is_level_zero_sorted_ => LevelSorted(0)

\* Level 0 holds three items in strictly ascending order and the flag is
\* false.
C22_Witness ==
  /\ Constructed
  /\ Pop(0) >= 3
  /\ \A i \in levels_[0]..(levels_[1] - 2) :
       comparator_(T, items_[i], items_[i + 1])
  /\ is_level_zero_sorted_ = FALSE

\* the loop of find_level_to_compact stops at a level below num_levels_,
\* having read levels_ up to index num_levels_ at most
FindLevelStops == \E l \in Levels : Pop(l) >= Cap(l)

\* the loop of randomly_halve_up, for (i = start + length - 1;
\* i >= start + half_length; i--) on uint32_t, ends: its lower limit is
\* not 0. start and length are those of the level found, before a top
\* level is added (which only moves start up).
HalveUpTerminates ==
  LET level == find_level_to_compact(levels_, level_capacities, num_levels_)
      raw_pop == Pop(level)
      odd_pop == raw_pop % 2 = 1
      adj_beg == IF odd_pop THEN levels_[level] + 1 ELSE levels_[level]
      adj_pop == IF odd_pop THEN raw_pop - 1 ELSE raw_pop
  IN adj_beg + (adj_pop \div 2) >= 1

\* the span items_, which Insert sorts, moves and writes, lies inside the
\* block allocated for max_capacity_ items
SpanInsideStorage ==
  /\ items_storage_ = 1
  /\ 0 <= items_begin
  /\ items_begin + levels_[num_levels_] <= max_capacity_

\* C24: every Insert on a constructed sketch terminates and returns
\* normally: when compress_while_updating is entered (levels[0] == 0),
\* find_level_to_compact stops at a level l < num_levels with population >=
\* capacity, the descending loop of randomly_halve_up terminates, and every
\* access of the Insert stays inside the allocated storage.
C24_InsertTotal ==
  Constructed =>
    /\ SpanInsideStorage
    /\ (levels_[0] = 0) => (FindLevelStops /\ HalveUpTerminates)

----------------------------------------------------------------------------
(* KLL: two sketches with the same k given the same Inserts *)

\* number of Insert calls made on the pair of sketches
MaxPairInserts == 8

\* the values one call of random_bit() returns; which one is decided by the
\* seed of the generator
random_bit == {0, 1}

\* Insert(item) never calls random_bit()
ConsumesNoBit(item) == FALSE

\* Insert(item) calls random_bit() exactly when it compacts: the item is
\* accepted and the buffer is full
ConsumesBit(item) == check_update_item(T, item) /\ levels_[0] = 0

\* the fields of a sketch that Insert changes, and its max_capacity_
TwinOf(sk) ==
  [levels |-> sk.levels,
   items |-> sk.items,
   num_levels |-> sk.num_levels,
   n |-> sk.n,
   is_level_zero_sorted |-> sk.is_level_zero_sorted,
   begin |-> sk.items_begin,
   max_capacity |-> sk.max_capacity]

\* two sketches constructed with the same k; each reads its own
\* max_capacity_ from storage that is not yet initialised
InitKLLPair ==
  /\ NoCountSketch
  /\ NoCall
  /\ NoHeapSketch
  /\ calls = {}
  /\ T \in {"int64", "float"}
  /\ lanes = 0
  /\ values = <<>>
  /\ weights = <<>>
  /\ hashes = <<>>
  /\ n = 0
  /\ step = 0
  /\ freq = <<>>
  /\ \E k \in MIN_K..(MIN_K + 1) :
       \E uninit \in UninitCapacities(Uint16(k)) :
         \E uninit2 \in UninitCapacities(Uint16(k)) :
           LET sk == Constructor(T, Uint16(k), uninit)
           IN /\ thrown = sk.thrown
              /\ k_ = sk.k
              /\ num_levels_ = sk.num_levels
              /\ is_level_zero_sorted_ = sk.is_level_zero_sorted
              /\ n_ = sk.n
              /\ levels_ = sk.levels
              /\ max_capacity_ = sk.max_capacity
              /\ level_capacities = sk.level_capacities
              /\ items_ = sk.items
              /\ items_storage_ = sk.items_storage
              /\ items_begin = sk.items_begin
              /\ twin = TwinOf(Constructor(T, Uint16(k), uninit2))
  /\ same_bits = TRUE

\* KarninLangLiberty::update on the second sketch
TwinUpdate(item, offset) ==
  IF check_update_item(T, item)
    THEN \E st \in {internal_update(
                        T,
                        [levels |-> twin.levels, items |-> twin.items,
                         num_levels |-> twin.num_levels, n |-> twin.n,
                         begin |-> twin.begin,
                         max_capacity |-> twin.max_capacity],
                        level_capacities, twin.is_level_zero_sorted, offset)} :
            twin' = [levels |-> st.levels,
                     items |-> [st.items EXCEPT ![st.index] = item],
                     num_levels |-> st.num_levels,
                     n |-> st.n,
                     is_level_zero_sorted |-> st.is_level_zero_sorted,
                     begin |-> st.begin,
                     max_capacity |-> twin.max_capacity]
    ELSE UNCHANGED twin

\* the same item is inserted into both sketches; each sketch draws from its
\* own random_bit
PairInsert ==
  /\ n < MaxPairInserts
  /\ \E item \in KLLKeys(T) :
       \E offset \in random_bit :
         \E offset2 \in random_bit :
           /\ update(item, offset)
           /\ TwinUpdate(item, offset2)
           /\ same_bits' = (same_bits /\ (ConsumesBit(item) => offset = offset2))

NextKLLPair == PairInsert

SpecKLLPair == InitKLLPair /\ [][NextKLLPair]_vars

\* the items a sketch retains, by position
Retained(levels, items, num_levels) ==
  [i \in levels[0]..(levels[num_levels] - 1) |-> items[i]]

\* the two sketches are in the same state (n, num_levels, levels, retained
\* items)
TwinEqual ==
  /\ twin.n = n_
  /\ twin.num_levels = num_levels_
  /\ twin.levels = levels_
  /\ Retained(twin.levels, twin.items, twin.num_levels)
       = Retained(levels_, items_, num_levels_)

----------------------------------------------------------------------------
(* MurmurHash3_x64_128.  A uint64_t is kept as its eight bytes, the least
   significant first: [0..7 -> 0..255]; a key of size bytes likewise. *)

\* the uint64_t of a number below 2^31
U64(x) == [i \in 0..7 |-> IF i < 4 THEN (x \div (256 ^ i)) % 256 ELSE 0]

BytesToWord(bytes) == [i \in 0..7 |-> bytes[i + 1]]

\* 0x87c37b91114253d5
c1 == BytesToWord(<<213, 83, 66, 17, 145, 123, 195, 135>>)

\* 0x4cf5ad432745937f
c2 == BytesToWord(<<127, 147, 69, 39, 67, 173, 245, 76>>)

\* 0xff51afd7ed558ccd
fmix_c1 == BytesToWord(<<205, 140, 85, 237, 215, 175, 81, 255>>)

\* 0xc4ceb9fe1a85ec53
fmix_c2 == BytesToWord(<<83, 236, 133, 26, 254, 185, 206, 196>>)

\* Op(a) and Op(a, b) with every argument evaluated once
Once1(Op(_), a) == CHOOSE r \in {Op(x) : x \in {a}} : TRUE

Once2(Op(_, _), a, b) == CHOOSE r \in {Op(p[1], p[2]) : p \in {<<a, b>>}} : TRUE

\* a ^ b on two bytes
XorByte(a, b) ==
  LET bit(j) == ((a \div (2 ^ j)) + (b \div (2 ^ j))) % 2
  IN bit(0) + 2 * bit(1) + 4 * bit(2) + 8 * bit(3) + 16 * bit(4)
       + 32 * bit(5) + 64 * bit(6) + 128 * bit(7)

\* a ^ b on uint64_t
Xor64(a, b) ==
  Once2(LAMBDA x, y : [i \in 0..7 |-> XorByte(x[i], y[i])], a, b)

\* x + y on uint64_t (modulo 2^64), byte by byte with the carry
AddBytes(x, y) ==
  LET carry[i \in 0..7] ==
        IF i = 0 THEN 0 ELSE (x[i - 1] + y[i - 1] + carry[i - 1]) \div 256
  IN [i \in 0..7 |-> (x[i] + y[i] + carry[i]) % 256]

\* a + b on uint64_t
Add64(a, b) == Once2(AddBytes, a, b)

\* the sum of a[i] * b[j] over i + j = col
RECURSIVE Column(_, _, _, _)
Column(a, b, col, i) ==
  IF i > col THEN 0 ELSE a[i] * b[col - i] + Column(a, b, col, i + 1)

\* x * y on uint64_t (modulo 2^64), column by column with the carry
MulBytes(x, y) ==
  LET total[col \in 0..7] ==
        Column(x, y, col, 0) + (IF col = 0 THEN 0 ELSE total[col - 1] \div 256)
  IN [i \in 0..7 |-> total[i] % 256]

\* a * b on uint64_t
Mul64(a, b) == Once2(MulBytes, a, b)

\* y << r on uint64_t, 0 <= r < 64
ShlBytes(y, r) ==
  LET q == r \div 8
      s == r % 8
      get(j) == IF j < 0 THEN 0 ELSE y[j]
  IN [i \in 0..7 |->
        ((get(i - q) * (2 ^ s)) % 256) + (get(i - q - 1) \div (2 ^ (8 - s)))]

\* x << r on uint64_t
Shl64(x, r) == Once2(ShlBytes, x, r)

\* y >> r on uint64_t, 0 <= r < 64
ShrBytes(y, r) ==
  LET q == r \div 8
      s == r % 8
      get(j) == IF j > 7 THEN 0 ELSE y[j]
  IN [i \in 0..7 |->
        (get(i + q) \div (2 ^ s)) + ((get(i + q + 1) * (2 ^ (8 - s))) % 256)]

\* x >> r on uint64_t
Shr64(x, r) == Once2(ShrBytes, x, r)

\* (x << r) | (x >> (64 - r)); the two operands have no bit in common
rotl64(x, r) == Once1(LAMBDA y : Add64(Shl64(y, r), Shr64(y, 64 - r)), x)

\* k ^= k >> 33
XorShift33(k) == Once1(LAMBDA y : Xor64(y, Shr64(y, 33)), k)

fmix64(k) ==
  XorShift33(Mul64(XorShift33(Mul64(XorShift33(k), fmix_c1)), fmix_c2))

\* k1 *= c1; k1 = ROTL64(k1, 31); k1 *= c2
MixK1(k1) == Mul64(rotl64(Mul64(k1, c1), 31), c2)

\* k2 *= c2; k2 = ROTL64(k2, 33); k2 *= c1
MixK2(k2) == Mul64(rotl64(Mul64(k2, c2), 33), c1)

\* h1 ^= k1; h1 = ROTL64(h1, 27); h1 += h2; h1 = h1 * 5 + 0x52dce729
BodyH1(h1, h2, k1) ==
  Add64(Mul64(Add64(rotl64(Xor64(h1, MixK1(k1)), 27), h2), U64(5)),
        U64(1390208809))

\* h2 ^= k2; h2 = ROTL64(h2, 31); h2 += h1; h2 = h2 * 5 + 0x38495ab5
BodyH2(h2, h1, k2) ==
  Add64(Mul64(Add64(rotl64(Xor64(h2, MixK2(k2)), 31), h1), U64(5)),
        U64(944331445))

\* h1 | (static_cast<__uint128_t>(h2) << 64), as sixteen bytes
U128(h1, h2) ==
  Once2(LAMBDA lo, hi : [i \in 0..15 |-> IF i < 8 THEN lo[i] ELSE hi[i - 8]],
        h1, h2)

\* the finalization with the second h1 += h2 already made
FinalReturn(h1, h2) == Once1(LAMBDA a : U128(a, Add64(h2, a)), h1)

\* the finalization after h1 += h2; h2 += h1
FinalMix(h1, h2) ==
  Once1(LAMBDA f2 : FinalReturn(Add64(fmix64(h1), f2), f2), fmix64(h2))

\* h1 ^= len; h2 ^= len; h1 += h2; h2 += h1; fmix64 of both; h1 += h2;
\* h2 += h1
Finalization(h1, h2, len) ==
  Once2(LAMBDA a1, a2 :
          Once1(LAMBDA b1 : FinalMix(b1, Add64(a2, b1)), Add64(a1, a2)),
        Xor64(h1, U64(len)), Xor64(h2, U64(len)))

\* *reinterpret_cast<const uint64_t*>(data + w * sizeof(uint64_t)) on a
\* little-endian machine
GetBlock64(data, w) == [i \in 0..7 |-> data[8 * w + i]]

\* the loop over the 16-byte blocks
RECURSIVE BodyLoop(_, _, _, _, _)
BodyLoop(data, nblocks, i, h1, h2) ==
  IF i < nblocks
    THEN Once1(LAMBDA n1 :
                 BodyLoop(data, nblocks, i + 1, n1,
                          BodyH2(h2, n1, GetBlock64(data, i * 2 + 1))),
               BodyH1(h1, h2, GetBlock64(data, i * 2 + 0)))
    ELSE <<h1, h2>>

\* the cases i, i - 1, ..., base + 1 of the switch, each falling through:
\* k ^= static_cast<uint64_t>(tail[i - 1]) << (8 * (i - 1 - base))
RECURSIVE TailCases(_, _, _, _)
TailCases(tail, base, i, k) ==
  IF i <= base
    THEN k
    ELSE TailCases(tail, base, i - 1,
                   Xor64(k, Shl64(U64(tail[i - 1]), 8 * (i - 1 - base))))

\* switch (lenBytes & 15), cases 15 to 9: k2 and h2
TailH2(tail, rem, h2) ==
  IF rem >= 9
    THEN Xor64(h2, MixK2(TailCases(tail, 8, rem, U64(0))))
    ELSE h2

\* switch (lenBytes & 15), cases 8 to 1: k1 and h1
TailH1(tail, rem, h1) ==
  IF rem >= 1
    THEN Xor64(h1, MixK1(TailCases(tail, 0, IF rem > 8 THEN 8 ELSE rem,
                                   U64(0))))
    ELSE h1

\* the tail and the finalization, on the h1 and h2 the body left
TailAndFinalization(data, lenBytes, h) ==
  LET nblocks == lenBytes \div 16
      tail == [i \in 0..((lenBytes % 16) - 1) |-> data[16 * nblocks + i]]
  IN Finalization(TailH1(tail, lenBytes % 16, h[1]),
                  TailH2(tail, lenBytes % 16, h[2]), lenBytes)

\* MurmurHash3_x64_128(const void* key, size_t lenBytes, uint64_t seed);
\* data are the bytes at key, [0..lenBytes-1 -> 0..255]
MurmurHash3_x64_128(data, lenBytes, seed) ==
  Once1(LAMBDA h : TailAndFinalization(data, lenBytes, h),
        BodyLoop(data, lenBytes \div 16, 0, seed, seed))

\* static_cast<uint64_t>(k) of an unsigned key of size <= 8 bytes
ZeroExtend(k, size) == [i \in 0..7 |-> IF i < size THEN k[i] ELSE 0]

\* the unrolled routine without h1 ^= sizeof(k); h2 ^= sizeof(k)
UnrolledWordNoLength(k, size, seed) ==
  Finalization(Xor64(seed, MixK1(Xor64(U64(0), ZeroExtend(k, size)))), seed,
               0)

\* the unrolled routine for a key that fits one word: k1 = 0; k1 ^= k; mix;
\* h1 ^= k1; finalization with sizeof(k)
UnrolledWord(k, size, seed) ==
  Finalization(Xor64(seed, MixK1(Xor64(U64(0), ZeroExtend(k, size)))), seed,
               size)

\* MurmurHash3_x64_128(const uint8_t& k, uint64_t seed)
MurmurHash3_x64_128_uint8(k, seed) == UnrolledWord(k, 1, seed)

\* MurmurHash3_x64_128(const uint16_t& k, uint64_t seed)
MurmurHash3_x64_128_uint16(k, seed) == UnrolledWord(k, 2, seed)

\* MurmurHash3_x64_128(const uint32_t& k, uint64_t seed)
MurmurHash3_x64_128_uint32(k, seed) == UnrolledWord(k, 4, seed)

\* MurmurHash3_x64_128(const uint64_t& k, uint64_t seed)
MurmurHash3_x64_128_uint64(k, seed) == UnrolledWord(k, 8, seed)

\* MurmurHash3_x64_128(const __uint128_t& k, uint64_t seed): k1 is
\* static_cast<uint64_t>(k), k2 is static_cast<uint64_t>(k >> 64)
MurmurHash3_x64_128_uint128(k, seed) ==
  LET k1 == [i \in 0..7 |-> k[i]]
      k2 == [i \in 0..7 |-> k[i + 8]]
  IN Once1(LAMBDA h1 : Finalization(h1, BodyH2(seed, h1, k2), 16),
           BodyH1(seed, seed, k1))

\* the overload chosen for a key of size bytes
Unrolled(k, size, seed) ==
  CASE size = 1 -> MurmurHash3_x64_128_uint8(k, seed)
    [] size = 2 -> MurmurHash3_x64_128_uint16(k, seed)
    [] size = 4 -> MurmurHash3_x64_128_uint32(k, seed)
    [] size = 8 -> MurmurHash3_x64_128_uint64(k, seed)
    [] size = 16 -> MurmurHash3_x64_128_uint128(k, seed)

\* the bytes of the object k as a big-endian machine lays them out
ObjectBytesBigEndian(k, size) == [a \in 0..(size - 1) |-> k[size - 1 - a]]

\* the bytes of the object k as they lie in memory on a little-endian
\* machine: the least significant byte at the lowest address
ObjectBytes(k, size) == [a \in 0..(size - 1) |-> k[a]]

\* the key sizes that have an unrolled overload
KeySizes == {1, 2, 4, 8, 16}

\* the values a chosen byte of a key takes
ByteChoices == {1, 128, 255}

\* the keys hashed: all bytes zero, all bytes ones, the bytes 17, 34, ...,
\* and every key with one byte of ByteChoices and the others zero
KeysOfSize(size) ==
  {[i \in 0..(size - 1) |-> 0], [i \in 0..(size - 1) |-> 255],
   [i \in 0..(size - 1) |-> (17 * (i + 1)) % 256]}
    \cup {[i \in 0..(size - 1) |-> IF i = pos THEN v ELSE 0] :
            pos \in 0..(size - 1), v \in ByteChoices}

\* kSeed = 9001 of hash.hpp, and seed 0
kSeed == 9001

Seeds == {U64(0), U64(kSeed)}

\* a & b on two bytes
AndByte(a, b) ==
  LET bit(j) == ((a \div (2 ^ j)) % 2) * ((b \div (2 ^ j)) % 2)
  IN bit(0) + 2 * bit(1) + 4 * bit(2) + 8 * bit(3) + 16 * bit(4)
       + 32 * bit(5) + 64 * bit(6) + 128 * bit(7)

\* fp_hash_bits without the test for zero: the raw bit pattern
FpHashBitsRaw(f, size) == f

\* detail::fp_hash_bits on the size bytes of a float (4) or double (8):
\* kMask is the largest signed integer, all bits but the sign bit;
\* return (i & kMask) ? i : 0
fp_hash_bits(f, size) ==
  LET kMask == [j \in 0..(size - 1) |-> IF j = size - 1 THEN 127 ELSE 255]
      masked == [j \in 0..(size - 1) |-> AndByte(f[j], kMask[j])]
  IN IF \E j \in 0..(size - 1) : masked[j] # 0
       THEN f
       ELSE [j \in 0..(size - 1) |-> 0]

\* detail::Hash(key, seed) for a float or double key
HashFloat(f, size, seed) == Unrolled(fp_hash_bits(f, size), size, seed)

\* the bit pattern of -x
Negated(f, size) ==
  [j \in 0..(size - 1) |-> IF j = size - 1 THEN (f[j] + 128) % 256 ELSE f[j]]

\* the bit pattern with the sign bit cleared
SignCleared(f, size) ==
  [j \in 0..(size - 1) |-> IF j = size - 1 THEN f[j] % 128 ELSE f[j]]

\* bit patterns of float: 0, the least denormal, 1, infinity, a NaN, and
\* their negatives
FloatPatterns ==
  LET pos == {<<0, 0, 0, 0>>, <<1, 0, 0, 0>>, <<0, 0, 128, 63>>,
              <<0, 0, 128, 127>>, <<0, 0, 192, 127>>}
      bits(q) == [j \in 0..3 |-> q[j + 1]]
  IN {bits(q) : q \in pos} \cup {Negated(bits(q), 4) : q \in pos}

\* bit patterns of double: 0, the least denormal, 1, infinity, a NaN, and
\* their negatives
DoublePatterns ==
  LET pos == {<<0, 0, 0, 0, 0, 0, 0, 0>>, <<1, 0, 0, 0, 0, 0, 0, 0>>,
              <<0, 0, 0, 0, 0, 0, 240, 63>>, <<0, 0, 0, 0, 0, 0, 240, 127>>,
              <<0, 0, 0, 0, 0, 0, 248, 127>>}
      bits(q) == [j \in 0..7 |-> q[j + 1]]
  IN {bits(q) : q \in pos} \cup {Negated(bits(q), 8) : q \in pos}

HashCalls ==
  {[routine |-> "Hash", size |-> 4, key |-> key, seed |-> seed] :
     key \in FloatPatterns, seed \in Seeds}
    \cup {[routine |-> "Hash", size |-> 8, key |-> key, seed |-> seed] :
            key \in DoublePatterns, seed \in Seeds}

MurmurCalls ==
  {[routine |-> "MurmurHash3_x64_128", size |-> size, key |-> key,
    seed |-> seed] :
     size \in KeySizes, key \in UNION {KeysOfSize(sz) : sz \in KeySizes},
     seed \in Seeds}

InitHash ==
  /\ NoCountSketch
  /\ NoSpaceSaving
  /\ NoHeapSketch
  /\ NoKLL
  /\ n = 0
  /\ step = 0
  /\ arg \in {c \in MurmurCalls : DOMAIN c.key = 0..(c.size - 1)} \cup HashCalls
  /\ ret = <<>>

\* the key is hashed by the overload for its width and by the byte routine
\* on its bytes in memory
CallMurmurHash ==
  /\ arg.routine = "MurmurHash3_x64_128"
  /\ ret = <<>>
  /\ ret' = [unrolled |-> Unrolled(arg.key, arg.size, arg.seed),
             general |-> MurmurHash3_x64_128(ObjectBytes(arg.key, arg.size),
                                             arg.size, arg.seed)]
  /\ n' = n + 1
  /\ UNCHANGED <<arg, step, ssVars, heapVars, csVars, kllVars>>

\* detail::Hash on a floating-point key and on its negative
CallHash ==
  /\ arg.routine = "Hash"
  /\ ret = <<>>
  /\ ret' = [passed |-> fp_hash_bits(arg.key, arg.size),
             hash |-> HashFloat(arg.key, arg.size, arg.seed),
             passed_neg |-> fp_hash_bits(Negated(arg.key, arg.size), arg.size),
             hash_neg |-> HashFloat(Negated(arg.key, arg.size), arg.size,
                                    arg.seed)]
  /\ n' = n + 1
  /\ UNCHANGED <<arg, step, ssVars, heapVars, csVars, kllVars>>

NextHash == CallMurmurHash \/ CallHash

SpecHash == InitHash /\ [][NextHash]_vars

\* C25: for every key and seed, the overload of MurmurHash3_x64_128 for a
\* key of 1, 2, 4, 8 or 16 bytes returns the same 128-bit value as the byte
\* routine on the little-endian bytes of the key with len the key width.
C25_UnrolledEqualsGeneral ==
  (ret # <<>> /\ arg.routine = "MurmurHash3_x64_128") =>
    ret.unrolled = ret.general

\* A 16-byte key whose upper word is not zero has been hashed both ways to
\* the same value.
C25_Witness ==
  /\ ret # <<>>
  /\ arg.routine = "MurmurHash3_x64_128"
  /\ arg.size = 16
  /\ arg.key[12] = 255
  /\ arg.key[0] = 0
  /\ ret.unrolled = ret.general

HashReturned == ret # <<>> /\ arg.routine = "Hash"

IsZeroPattern(f, size) == \A j \in 0..(size - 1) : SignCleared(f, size)[j] = 0

\* C26 (as claimed): for every float or double x the integer passed to
\* MurmurHash3 is the bit pattern of x with the sign bit cleared, so
\* Hash(+0.0) == Hash(-0.0).
C26_SignBitCleared ==
  HashReturned =>
    /\ ret.passed = SignCleared(arg.key, arg.size)
    /\ IsZeroPattern(arg.key, arg.size) => ret.hash = ret.hash_neg

\* C26 (amended): the integer passed to MurmurHash3 is the bit pattern of x
\* unchanged, sign bit included, unless x is +0 or -0, for which it is 0; so
\* Hash(+0.0) == Hash(-0.0), while x and -x pass different integers for every
\* other x.
C26_ZeroCanonicalized ==
  HashReturned =>
    IF IsZeroPattern(arg.key, arg.size)
      THEN /\ ret.passed = SignCleared(arg.key, arg.size)
           /\ ret.passed_neg = ret.passed
           /\ ret.hash = ret.hash_neg
      ELSE /\ ret.passed = arg.key
           /\ ret.passed_neg = Negated(arg.key, arg.size)
           /\ ret.passed_neg # ret.passed

\* Hash(-0.0f) has returned the hash of the integer 0, that of Hash(+0.0f).
C26_Witness ==
  /\ HashReturned
  /\ arg.size = 4
  /\ arg.key[3] = 128
  /\ IsZeroPattern(arg.key, arg.size)
  /\ ret.passed[3] = 0
  /\ ret.hash = ret.hash_neg

----------------------------------------------------------------------------
(* The AVX2 block scans of simd.hpp.  A vector is the function from its
   lane numbers to the signed values of its lanes; a mask is the set of its
   bit positions. *)

\* _mm256_loadu_si256(keys + offset) as lanes of the key width
loadu(keys, offset, width) == [i \in 0..(width - 1) |-> keys[offset + i]]

\* _mm256_cmpeq_epi16, _mm256_cmpeq_epi32, _mm256_cmpeq_epi64: all bits of
\* a lane set (-1) where the lanes are equal, 0 elsewhere
cmpeq(x, v) == [i \in DOMAIN x |-> IF x[i] = v THEN -1 ELSE 0]

\* signed saturation of a 16-bit lane to 8 bits
Saturate8(x) == IF x < -128 THEN -128 ELSE IF x > 127 THEN 127 ELSE x

\* _mm256_packs_epi16(a, b): in each 128-bit half, the eight lanes of a
\* and then the eight lanes of b, saturated to bytes
mm256_packs_epi16(a, b) ==
  [i \in 0..31 |->
     LET half == i \div 16
         j == i % 16
     IN IF j < 8 THEN Saturate8(a[8 * half + j])
        ELSE Saturate8(b[8 * half + (j - 8)])]

\* _MM_SHUFFLE(z, y, x, w): the source quadword of the destination
\* quadwords 0, 1, 2, 3
MM_SHUFFLE(z, y, x, w) == <<w, x, y, z>>

\* _mm256_permute4x64_epi64 on a vector of 32 bytes
mm256_permute4x64_epi64(x, imm) ==
  [i \in 0..31 |-> x[8 * imm[(i \div 8) + 1] + (i % 8)]]

\* an int returned by a movemask intrinsic, converted to uint64_t: a
\* negative int (bit 31 set) is sign-extended
IntToUint64(bits) == IF 31 \in bits THEN bits \cup (32..63) ELSE bits

\* detail::movemask_epi8: the most significant bit of each of 32 bytes
movemask_epi8(x) == IntToUint64({i \in 0..31 : x[i] < 0})

\* detail::movemask_epi32: the most significant bit of each of 8 lanes
movemask_epi32(x) == IntToUint64({i \in 0..7 : x[i] < 0})

\* detail::movemask_epi64: the most significant bit of each of 4 lanes
movemask_epi64(x) == IntToUint64({i \in 0..3 : x[i] < 0})

\* m << r on uint64_t
ShiftLeft(m, r) == {b + r : b \in m} \cap (0..63)

\* the packed, permuted and movemasked compare of keys[base .. base + 32)
\* with 16-bit lanes
PackedMask16(v, keys, base) ==
  movemask_epi8(
    mm256_permute4x64_epi64(
      mm256_packs_epi16(cmpeq(loadu(keys, base, 16), v),
                        cmpeq(loadu(keys, base + 16, 16), v)),
      MM_SHUFFLE(3, 1, 2, 0)))

Compare64Keys16Bit(v, keys) ==
  PackedMask16(v, keys, 0) \cup ShiftLeft(PackedMask16(v, keys, 32), 32)

Compare32Keys16Bit(v, keys) == PackedMask16(v, keys, 0)

\* m |= movemask(x1); m |= movemask(x2) << width; ... for count vectors of
\* width lanes
RECURSIVE OrMasks(_, _, _, _, _)
OrMasks(v, keys, width, count, j) ==
  IF j = count THEN {}
  ELSE ShiftLeft(IF width = 8
                   THEN movemask_epi32(cmpeq(loadu(keys, width * j, width), v))
                   ELSE movemask_epi64(cmpeq(loadu(keys, width * j, width), v)),
                 width * j)
         \cup OrMasks(v, keys, width, count, j + 1)

Compare64Keys32Bit(v, keys) == OrMasks(v, keys, 8, 8, 0)

Compare32Keys32Bit(v, keys) == OrMasks(v, keys, 8, 4, 0)

Compare32Keys64Bit(v, keys) == OrMasks(v, keys, 4, 8, 0)

SIMDScan ==
  {"Compare64Keys16Bit", "Compare32Keys16Bit", "Compare64Keys32Bit",
   "Compare32Keys32Bit", "Compare32Keys64Bit"}

\* the number of keys a routine compares
KeysOf(routine) ==
  IF routine \in {"Compare64Keys16Bit", "Compare64Keys32Bit"} THEN 64 ELSE 32

\* the blocks scanned: the value 7 at one position, at two positions, or at
\* none, among keys 1
BlocksOf(N) ==
  {[i \in 0..(N - 1) |-> 1]}
    \cup {[i \in 0..(N - 1) |-> IF i = p THEN 7 ELSE 1] : p \in 0..(N - 1)}
    \cup {[i \in 0..(N - 1) |-> IF i = p \/ i = N - 1 - p THEN 7 ELSE 1] :
            p \in 0..(N - 1)}

SimdCalls ==
  UNION {{[routine |-> r, keys |-> keys, v |-> 7] : keys \in BlocksOf(KeysOf(r))} :
           r \in SIMDScan}

InitSimd ==
  /\ NoCountSketch
  /\ NoSpaceSaving
  /\ NoHeapSketch
  /\ NoKLL
  /\ n = 0
  /\ step = 0
  /\ arg \in SimdCalls
  /\ ret = <<>>

\* one call of a block scan
CallCompare ==
  /\ arg.routine \in SIMDScan
  /\ ret = <<>>
  /\ ret' = [mask |->
               CASE arg.routine = "Compare64Keys16Bit" ->
                      Compare64Keys16Bit(arg.v, arg.keys)
                 [] arg.routine = "Compare32Keys16Bit" ->
                      Compare32Keys16Bit(arg.v, arg.keys)
                 [] arg.routine = "Compare64Keys32Bit" ->
                      Compare64Keys32Bit(arg.v, arg.keys)
                 [] arg.routine = "Compare32Keys32Bit" ->
                      Compare32Keys32Bit(arg.v, arg.keys)
                 [] arg.routine = "Compare32Keys64Bit" ->
                      Compare32Keys64Bit(arg.v, arg.keys)]
  /\ n' = n + 1
  /\ UNCHANGED <<arg, step, ssVars, heapVars, csVars, kllVars>>

NextSimd == CallCompare

SpecSimd == InitSimd /\ [][NextSimd]_vars

CompareReturned == ret # <<>> /\ arg.routine \in SIMDScan

\* C27: each SIMDScan routine returns, for every block of N keys and every
\* broadcast value v, a 64-bit mask in which bit i is set if and only if
\* i < N and keys[i] == v; no bit at position N or above is ever set.
C27_MaskExact ==
  CompareReturned =>
    ret.mask = {i \in 0..(KeysOf(arg.routine) - 1) : arg.keys[i] = arg.v}

----------------------------------------------------------------------------
(* heap::SpaceSaving beside final::SpaceSaving, given the same Inserts *)

\* detail::sequence<T>(k): sequence[i] = i converted to T.
heap_sequence(type, k) ==
  [i \in 0..(k - 1) |-> IF type = "float" THEN IntToFloat(i) ELSE i]

\* heap Normalized that returns its argument for every type.
heap_NormalizedIdentity(type, value) == value

\* heap::SpaceSaving::Normalized: (value == kZero) ? kZero : value
heap_Normalized(type, value) ==
  IF type = "float"
    THEN (IF value.mag = 0 THEN kZero ELSE value)
    ELSE value

\* operator== of T: IEEE equality of two floats (a NaN equals nothing, the two
\* zeros are equal), equality of two integers
EqualTo(type, a, b) ==
  IF type = "float"
    THEN /\ ~IsNaN(a)
         /\ ~IsNaN(b)
         /\ \/ a = b
            \/ (a.mag = 0 /\ b.mag = 0)
    ELSE a = b

\* std::find(values.begin(), values.end(), value) - values.begin(); the size
\* of values when no element is equal to value
RECURSIVE std_find(_, _, _, _)
std_find(type, keys, value, it) ==
  IF it = KOf(keys) THEN it
  ELSE IF EqualTo(type, keys[it], value) THEN it
  ELSE std_find(type, keys, value, it + 1)

\* the while loop of heap::SpaceSaving::SiftDown
RECURSIVE heap_SiftLoop(_, _, _, _, _)
heap_SiftLoop(w, v, weight, value, parent) ==
  LET k == KOf(w)
      child == 2 * parent + 1
      right_child == child + 1
      c == IF right_child < k /\ w[child] > w[right_child]
             THEN right_child ELSE child
  IN IF child < k /\ weight > w[c]
       THEN heap_SiftLoop([w EXCEPT ![parent] = w[c]],
                          [v EXCEPT ![parent] = v[c]], weight, value, c)
       ELSE [weights |-> [w EXCEPT ![parent] = weight],
             values |-> [v EXCEPT ![parent] = value]]

heap_SiftDown(w, v, i) == heap_SiftLoop(w, v, w[i], v[i], i)

heap_UpdateHeap(w, v, value, i) ==
  heap_SiftDown([w EXCEPT ![i] = w[i] + 1], [v EXCEPT ![i] = value], i)

\* heap::SpaceSaving::Insert(const T& v)
heap_Insert(v) ==
  LET value == heap_Normalized(T, v)
      it == std_find(T, heap_values, value, 0)
      i == IF it # KOf(heap_values) THEN it ELSE 0
      heap == heap_UpdateHeap(heap_weights, heap_values, value, i)
  IN /\ heap_weights' = heap.weights
     /\ heap_values' = heap.values

\* final::SpaceSaving<T, K> and heap::SpaceSaving<T>(K), both fresh
InitSSPair ==
  /\ NoCountSketch
  /\ NoKLL
  /\ NoCall
  /\ T \in {"int64", "float"}
  /\ lanes = ScaledLanes
  /\ values = sequence(T, ScaledK)
  /\ hashes = <<>>
  /\ calls = {}
  /\ weights = ZeroWeights(ScaledK)
  /\ heap_values = heap_sequence(T, ScaledK)
  /\ heap_weights = [i \in 0..(ScaledK - 1) |-> 0]
  /\ n = 0
  /\ freq = [x \in Keys(T) |-> 0]
  /\ step = 0

\* the same v is inserted into both sketches
InsertBoth ==
  /\ n < MaxInserts
  /\ \E v \in Keys(T) :
       /\ Insert(v)
       /\ heap_Insert(v)
  /\ UNCHANGED step

NextSSPair == InsertBoth

SpecSSPair == InitSSPair /\ [][NextSSPair]_vars

\* some Insert so far was given a NaN
NaNInserted ==
  /\ T = "float"
  /\ \E x \in DOMAIN freq : IsNaN(x) /\ freq[x] > 0

----------------------------------------------------------------------------
(* SpaceSaving, arithmetic keys: what one Insert changes *)

\* the K slots as a bag of (value, weight) pairs
PairBag(v, w) ==
  LET pair(i) == <<v[i], w[i]>>
  IN [pr \in {pair(i) : i \in DOMAIN w} |->
        Cardinality({i \in DOMAIN w : pair(i) = pr})]

\* the pair Insert(v) takes out of the slots: the pair of the normalized v
\* when it occurs in values, the pair at index 0 otherwise
PairTaken(v) ==
  LET value == Normalized(T, v)
  IN IF Tracked(value) THEN <<value, stored_weight(value)>>
     ELSE <<values[0], weights[0]>>

\* the step is the call Insert(v) of the arithmetic specialization
IsInsertOf(v) ==
  /\ IsArithmetic(T)
  /\ n' = n + 1
  /\ freq' = [freq EXCEPT ![v] = @ + 1]

\* C29: one Insert(v) of the arithmetic sketch changes exactly one pair of the
\* bag of (value, weight) pairs: the pair (v, w) of the normalized v becomes
\* (v, w + 1) when v occurs in values, otherwise the pair at index 0, whose
\* weight is the minimum, is replaced by (v, weights[0] + 1); the other K - 1
\* pairs are kept as pairs.
C29_OnePairChanges ==
  [][\A v \in DOMAIN freq :
       IsInsertOf(v) =>
         /\ PairBag(values', weights') =
              (PairBag(values, weights) (-) SetToBag({PairTaken(v)}))
                (+) SetToBag({<<Normalized(T, v), PairTaken(v)[2] + 1>>})
         /\ ~Tracked(Normalized(T, v)) => weights[0] = MinWeight]_vars

\* a key that no slot held has replaced a slot, was counted again in its
\* slot, and SiftDown has moved it away from index 0
C29_Witness ==
  /\ IsArithmetic(T)
  /\ \E i \in Slots :
       /\ i > 0
       /\ values[i] \notin {sequence(T, ScaledK)[j] : j \in 0..(ScaledK - 1)}
       /\ weights[i] >= 2
       /\ freq[values[i]] = weights[i]
  /\ \E i \in Slots : weights[i] = 1

----------------------------------------------------------------------------
(* SpaceSaving, opaque keys: the three arrays move in lockstep *)

\* every counted slot holds the fingerprint and the value of one Insert call
C30_SameCall ==
  T = "opaque" =>
    \A i \in Slots :
      weights[i] > 0 => <<hashes[i], values[i]>> \in calls

\* one Insert takes one (fingerprint, value, weight) triple out of the slots
\* and puts in the triple of the call with one more count; the other triples
\* are kept whole
C30_TriplesKept ==
  (T = "opaque" /\ n' = n + 1) =>
    \E i \in Slots : \E j \in Slots :
      /\ SlotBag(hashes', values', weights')
           (-) SetToBag({<<hashes'[i], values'[i], weights'[i]>>})
         = SlotBag(hashes, values, weights)
             (-) SetToBag({<<hashes[j], values[j], weights[j]>>})
      /\ weights'[i] = weights[j] + 1
      /\ calls' = calls \cup {<<hashes'[i], values'[i]>>}

\* C30: in the opaque-key sketch every slot with weights[i] > 0 holds in
\* (hashes[i], values[i]) the fingerprint roll_down(hash) and the value of
\* one and the same earlier Insert(value, hash) call, and SiftDown moves
\* weight, hash and value of a slot together.
C30_Lockstep == [](C30_SameCall) /\ [][C30_TriplesKept]_vars

\* two counted slots hold different values under different fingerprints,
\* SiftDown has moved one of them, and no call had the fingerprint of one
\* with the value of the other
C30_Witness ==
  /\ T = "opaque"
  /\ \E i \in Slots : \E j \in Slots :
       /\ 0 < i
       /\ i < j
       /\ weights[i] >= 2
       /\ weights[j] >= 1
       /\ hashes[i] # hashes[j]
       /\ values[i] # values[j]
       /\ <<hashes[i], values[j]>> \notin calls
       /\ <<hashes[j], values[i]>> \notin calls

----------------------------------------------------------------------------
(* KLL: what one compaction does *)

\* the sketch as the record the update routines work on
Sketch ==
  [levels |-> levels_, items |-> items_, num_levels |-> num_levels_,
   n |-> n_, begin |-> items_begin, max_capacity |-> max_capacity_]

\* const uint8_t level = find_level_to_compact()
CompactedLevel == find_level_to_compact(levels_, level_capacities, num_levels_)

\* the top level is the one to compact: a new top level is added first
AddsTopLevel == CompactedLevel = num_levels_ - 1

\* the sketch at the point where compress_while_updating reads raw_beg and
\* raw_lim: after the new top level has been added when the level to compact
\* is the top level
BeforeCompaction ==
  IF AddsTopLevel
    THEN add_empty_top_level_to_completely_full_sketch(T, Sketch,
                                                       level_capacities)
    ELSE Sketch

\* the step is an Insert that runs compress_while_updating
IsCompaction ==
  /\ thrown = "none"
  /\ levels_[0] = 0
  /\ n_' = n_ + 1

\* levels_ as compress_while_updating left them, before --levels_[0]
LevelsAfterCompaction == [levels_' EXCEPT ![0] = @ + 1]

\* the items of level l of a sketch, in order
LevelItems(levels, items, l) ==
  [j \in 1..(levels[l + 1] - levels[l]) |-> items[levels[l] + j - 1]]

\* C31: when compress_while_updating compacts level l holding raw_pop items
\* (counted where raw_beg and raw_lim are read), afterwards level l holds
\* raw_pop mod 2 items, level l + 1 holds floor(raw_pop / 2) more items than
\* before, every level above l + 1 has the same boundaries and contents,
\* every level below l holds the same items shifted right by
\* floor(raw_pop / 2) positions, and levels[0] has grown by floor(raw_pop / 2).
C31_CompactionEffect ==
  [][IsCompaction =>
       LET pre == BeforeCompaction
           l == CompactedLevel
           raw_pop == pre.levels[l + 1] - pre.levels[l]
           half == raw_pop \div 2
           post == LevelsAfterCompaction
       IN /\ post[l + 1] - post[l] = raw_pop % 2
          /\ post[l + 2] - post[l + 1]
               = (pre.levels[l + 2] - pre.levels[l + 1]) + half
          /\ \A i \in (l + 2)..(pre.num_levels - 1) :
               /\ post[i] = pre.levels[i]
               /\ post[i + 1] = pre.levels[i + 1]
               /\ LevelItems(post, items_', i)
                    = LevelItems(pre.levels, pre.items, i)
          /\ \A i \in 0..(l - 1) :
               /\ post[i] = pre.levels[i] + half
               /\ post[i + 1] = pre.levels[i + 1] + half
               /\ LevelItems(post, items_', i)
                    = LevelItems(pre.levels, pre.items, i)
          /\ post[0] = pre.levels[0] + half
          /\ num_levels_' = pre.num_levels]_vars

\* three levels are in use, level 0 holds the one item of the Insert that
\* compacted, and the levels above hold what compactions promoted
C31_Witness ==
  /\ Constructed
  /\ num_levels_ >= 3
  /\ Pop(0) = 1
  /\ Pop(1) >= 1
  /\ Pop(2) >= 1

----------------------------------------------------------------------------
(* KLL: the compactor keeps alternate items *)

\* the items at the even (parity 0) or odd (parity 1) indices of a run,
\* indices counted from 0
Alternate(run, parity) ==
  [j \in 1..(Len(run) \div 2) |-> run[2 * j - 1 + parity]]

\* items[adj_beg .. adj_beg + adj_pop) of the level to compact, as the
\* halving finds it: level 0 has been sorted, a level above is taken as it is
AdjustedRun ==
  LET pre == BeforeCompaction
      l == CompactedLevel
      raw_beg == pre.levels[l]
      raw_pop == pre.levels[l + 1] - raw_beg
      adj_beg == raw_beg + (raw_pop % 2)
      run == [j \in 1..(raw_pop - (raw_pop % 2)) |-> pre.items[adj_beg + j - 1]]
  IN IF l = 0 THEN SortItems(T, run) ELSE run

\* level l + 1 before the compaction
LevelAbove ==
  LevelItems(BeforeCompaction.levels, BeforeCompaction.items,
             CompactedLevel + 1)

\* the parity of the indices kept when random_bit() returns bit:
\* randomly_halve_up starts at the last index of the run and walks down,
\* randomly_halve_down starts at the first index and walks up
ParityKept(bit) == IF LevelAbove = <<>> THEN 1 - bit ELSE bit

\* level l + 1 after compress_while_updating was given this random bit
PromotedWith(bit) ==
  LET st == compress_while_updating(T, Sketch, level_capacities,
                                    is_level_zero_sorted_, bit)
  IN LevelItems(st.levels, st.items, CompactedLevel + 1)

\* C32: in each compaction of level l the items promoted to level l + 1 are
\* exactly the even-indexed or exactly the odd-indexed items of the sorted
\* adjusted run, the one random bit of the compaction choosing between the
\* two, when the level above is empty (randomly_halve_up) and when it is not
\* (randomly_halve_down, then the merge with the level above).
C32_AlternateItems ==
  [][IsCompaction =>
       /\ \A bit \in random_bit :
            PromotedWith(bit)
              = SortItems(T, Alternate(AdjustedRun, ParityKept(bit))
                               \o LevelAbove)
       /\ \E bit \in random_bit :
            LevelItems(LevelsAfterCompaction, items_', CompactedLevel + 1)
              = PromotedWith(bit)]_vars

\* a level above level 0 holds items that a compaction merged into it from
\* two compactions of the level below, and the level below was compacted
\* with different items at even and odd indices
C32_Witness ==
  /\ Constructed
  /\ num_levels_ >= 2
  /\ Pop(0) = 1
  /\ Pop(1) >= 2
  /\ \E i \in levels_[1]..(levels_[2] - 2) : items_[i] # items_[i + 1]

----------------------------------------------------------------------------
(* KLL: where the kept half of a compacted level lies *)

\* adj_beg of the compaction
AdjBeg ==
  LET pre == BeforeCompaction
      l == CompactedLevel
  IN pre.levels[l] + ((pre.levels[l + 1] - pre.levels[l]) % 2)

\* adj_pop of the compaction
AdjPop == Len(AdjustedRun)

\* the step compacts a level whose level above is empty (pop_above == 0)
IsCompactionBelowEmpty == IsCompaction /\ LevelAbove = <<>>

\* C33 (as claimed): with pop_above == 0 the surviving half of the compacted
\* level lies in items[adj_beg .. adj_beg + half), half = adj_pop / 2.
C33_KeptInLowerPart ==
  [][IsCompactionBelowEmpty =>
       /\ LevelsAfterCompaction[CompactedLevel + 1] = AdjBeg
       /\ LevelsAfterCompaction[CompactedLevel + 2] = AdjBeg + (AdjPop \div 2)]_vars

\* C33 (amended): with pop_above == 0 the surviving half of the compacted
\* level lies in items[adj_beg + half .. adj_beg + adj_pop), half =
\* adj_pop / 2, which becomes level l + 1; items[adj_beg .. adj_beg + half)
\* is given up to the levels below.
C33_KeptInUpperPart ==
  [][IsCompactionBelowEmpty =>
       LET half == AdjPop \div 2
           post == LevelsAfterCompaction
       IN /\ post[CompactedLevel + 1] = AdjBeg + half
          /\ post[CompactedLevel + 2] = AdjBeg + AdjPop
          /\ \E parity \in {0, 1} :
               \A j \in 1..half :
                 items_'[AdjBeg + half + j - 1]
                   = Alternate(AdjustedRun, parity)[j]
          /\ post[CompactedLevel] <= AdjBeg + half]_vars

\* the first compaction of a sketch has just happened: the level above
\* level 0 was new and empty, and now holds the kept half
C33_Witness ==
  /\ Constructed
  /\ num_levels_ = 2
  /\ n_ = k_ + 1
  /\ Pop(0) = 1
  /\ Pop(1) = k_ \div 2

----------------------------------------------------------------------------
(* KLL: growth of the number of levels *)

\* the step is an Insert whose compaction first adds a new top level
IsGrowth == IsCompaction /\ AddsTopLevel

\* C34: a new top level is added only inside compress_while_updating and
\* only when the level to compact is the top level num_levels - 1; the step
\* adds 1 to num_levels, adds delta = level_capacities[old num_levels] to
\* every levels[0 .. old num_levels], sets levels[new num_levels] to the old
\* total + delta, so that the new top level is empty, and changes no retained
\* item; num_levels never decreases and grows by at most 1 per Insert.
C34_LevelGrowth ==
  [][/\ num_levels_' = IF IsGrowth THEN num_levels_ + 1 ELSE num_levels_
     /\ IsGrowth =>
          LET grown == BeforeCompaction
              delta == level_capacities[num_levels_]
              total == levels_[num_levels_]
          IN /\ grown.num_levels = num_levels_ + 1
             /\ \A i \in 0..num_levels_ : grown.levels[i] = levels_[i] + delta
             /\ grown.levels[grown.num_levels] = total + delta
             /\ grown.levels[grown.num_levels] = grown.levels[num_levels_]
             /\ \A i \in levels_[0]..(total - 1) :
                  grown.items[i + delta] = items_[i]
             /\ levels_'[num_levels_'] = total + delta]_vars

\* the sketch has grown twice, and the compaction that followed the second
\* growth has put one item in the new top level
C34_Witness ==
  /\ Constructed
  /\ num_levels_ = 3
  /\ Pop(2) = 1
  /\ levels_[num_levels_] = compute_total_capacity(level_capacities, 3)

----------------------------------------------------------------------------
(* KLL: the table of level capacities *)

\* kll_constants::DEFAULT_M, the m_ every sketch is constructed with
DEFAULT_M == 8

\* the largest of the consecutive k from DEFAULT_M on that are tabulated
MaxTableK == 64

\* the k tabulated: the small ones, and some up to the largest uint16_t
TableKs == (DEFAULT_M..MaxTableK) \cup {100, 200, 1000, 4096, 32768, 65534, MAX_K}

\* max(m, floor((floor(2k * 2^depth / 3^depth) + 1) / 2)), computed without
\* the routines of the sketch
RoundedCapacity(k, depth) ==
  MaxOf(DEFAULT_M,
        (BigDiv(ValueOf(BigTimes(BigPow(2, depth), 2 * k)),
                ValueOf(BigPow(3, depth)), 0, 2 * k) + 1) \div 2)

InitTable ==
  /\ NoCountSketch
  /\ NoSpaceSaving
  /\ NoHeapSketch
  /\ NoKLL
  /\ n = 0
  /\ step = 0
  /\ arg \in {[routine |-> "compute_level_capacities", k |-> k] : k \in TableKs}
  /\ ret = <<>>

\* level_capacities(compute_level_capacities(k_, m_)) of the constructor
CallComputeLevelCapacities ==
  /\ arg.routine = "compute_level_capacities"
  /\ ret = <<>>
  /\ ret' = [table |-> compute_level_capacities(arg.k, DEFAULT_M),
             rounded |-> [depth \in 0..(kMaxNumLevels - 1) |->
                            RoundedCapacity(arg.k, depth)]]
  /\ n' = n + 1
  /\ UNCHANGED <<arg, step, ssVars, heapVars, csVars, kllVars>>

NextTable == CallComputeLevelCapacities

SpecTable == InitTable /\ [][NextTable]_vars

TableReturned == arg # <<>> /\ arg.routine = "compute_level_capacities" /\ ret # <<>>

\* C35: for every k in [8, 65535] the table of compute_level_capacities has
\* level_capacities[0] = k and, at every depth in [0, 60),
\* level_capacities[depth] = max(8, floor((floor(2k * 2^depth / 3^depth) + 1)
\* / 2)); the table does not increase with the depth, and after an entry
\* equal to 8 every entry is 8.
C35_LevelCapacities ==
  TableReturned =>
    /\ ret.table[0] = arg.k
    /\ \A depth \in 0..(kMaxNumLevels - 1) :
         ret.table[depth] = ret.rounded[depth]
    /\ \A depth \in 0..(kMaxNumLevels - 2) :
         ret.table[depth + 1] <= ret.table[depth]
    /\ \A depth \in 0..(kMaxNumLevels - 2) :
         ret.table[depth] = DEFAULT_M => ret.table[depth + 1] = DEFAULT_M

\* the table of the largest k: it reaches the floor at depth 23, where the
\* rounded quotient is 6
C35_Witness ==
  /\ TableReturned
  /\ arg.k = MAX_K
  /\ ret.table[22] = 9
  /\ ret.table[23] = DEFAULT_M
  /\ ret.table[kMaxNumLevels - 1] = DEFAULT_M

----------------------------------------------------------------------------
(* KLL: lifetime of the slots of the span *)

\* ~KarninLangLiberty(): destroys items_[levels_[0] .. levels_[num_levels_])
\* and gives the storage back
Destructor ==
  /\ thrown = "none"
  /\ items_storage_ # 0
  /\ items_' = DestroyItems(T, items_, levels_[0],
                            levels_[num_levels_] - levels_[0])
  /\ items_storage_' = 0
  /\ UNCHANGED <<k_, num_levels_, is_level_zero_sorted_, n_, max_capacity_,
                 levels_, level_capacities, thrown, items_begin, twin,
                 same_bits>>
  /\ UNCHANGED <<n, step, ssVars, heapVars, csVars, callVars>>

\* Insert on a sketch that has not been destroyed
InsertAlive ==
  /\ items_storage_ # 0
  /\ KLLInsert

NextKLLLifetime == InsertAlive \/ Destructor

SpecKLLLifetime == InitKLL /\ [][NextKLLLifetime]_vars

\* the slots of a span that hold a constructed item
LiveSlots(items) == {i \in DOMAIN items : items[i] # Dead(T)}

\* the sketch as compress_while_updating leaves it
AfterCompaction(bit) ==
  compress_while_updating(T, Sketch, level_capacities, is_level_zero_sorted_,
                          bit)

\* at a method boundary the live slots are those of the levels; none is live
\* once the destructor has run
C36_LiveAreTheLevels ==
  Constructed =>
    LiveSlots(items_) = IF items_storage_ # 0
                          THEN levels_[0]..(levels_[num_levels_] - 1)
                          ELSE {}

\* a compaction writes no slot that is not live and destroys the
\* half_adj_pop slots from the levels_[0] it started with; Insert constructs
\* in a slot that is not live; the destructor destroys the live slots
C36_StepsKeepDiscipline ==
  /\ IsCompaction =>
       \A bit \in random_bit :
         LET pre == BeforeCompaction
             post == AfterCompaction(bit)
             l == CompactedLevel
             half == (pre.levels[l + 1] - pre.levels[l]) \div 2
         IN /\ LiveSlots(post.items) \subseteq LiveSlots(pre.items)
            /\ LiveSlots(pre.items) \ LiveSlots(post.items)
                 = pre.levels[0]..(pre.levels[0] + half - 1)
            /\ levels_'[0] \notin LiveSlots(post.items)
  /\ (n_' = n_ + 1 /\ ~IsCompaction) => levels_'[0] \notin LiveSlots(items_)
  /\ n_' = n_ + 1 => levels_'[0] \in LiveSlots(items_')
  /\ (items_storage_ # 0 /\ items_storage_' = 0) =>
       /\ LiveSlots(items_) = levels_[0]..(levels_[num_levels_] - 1)
       /\ LiveSlots(items_') = {}

\* C36: at every method boundary the constructed slots of the span are
\* exactly the indices [levels[0], levels[num_levels]); a compaction
\* move-assigns only into live slots and then destroys exactly the
\* half_adj_pop slots from the pre-compaction levels[0]; Insert constructs
\* only in a slot that is not live; the destructor destroys exactly the live
\* slots.
C36_SlotLifetime == [](C36_LiveAreTheLevels) /\ [][C36_StepsKeepDiscipline]_vars

\* a sketch that grew, compacted and kept items has been destroyed
C36_Witness ==
  /\ Constructed
  /\ items_storage_ = 0
  /\ num_levels_ >= 2
  /\ levels_[0] > 0
  /\ levels_[num_levels_] - levels_[0] >= 3
  /\ LiveSlots(items_) = {}

----------------------------------------------------------------------------
(* KLL: the stored items are inserted items *)

\* how often the value v stands in items[levels[0] .. levels[num_levels])
StoredCount(items, levels, num_levels, v) ==
  Cardinality({i \in levels[0]..(levels[num_levels] - 1) : items[i] = v})

\* the values Insert accepts
AcceptedKeys == {v \in KLLKeys(T) : check_update_item(T, v)}

\* every stored item is a value Insert accepts
StoredAreKeys ==
  thrown = "none" =>
    \A keys \in {AcceptedKeys} :
      \A i \in levels_[0]..(levels_[num_levels_] - 1) : items_[i] \in keys

\* the step stores x at items[levels[0]] and no value of keys more often than
\* it was stored before, x counted once
StoresOnly(keys, x) ==
  /\ items_'[levels_'[0]] = x
  /\ \A v \in keys :
       StoredCount(items_', levels_', num_levels_', v)
         <= StoredCount(items_, levels_, num_levels_, v)
              + (IF v = x THEN 1 ELSE 0)

\* the step stores nothing and moves nothing
StoresNothing ==
  /\ levels_' = levels_
  /\ num_levels_' = num_levels_
  /\ \A i \in levels_[0]..(levels_[num_levels_] - 1) : items_'[i] = items_[i]

\* C37: the fresh sketch stores no item, and every Insert(x), the step that
\* places x at the index internal_update returns, leaves in
\* items[levels[0] .. levels[num_levels]) a sub-multiset of what was stored
\* before together with x (nothing when x is NaN), with x at items[levels[0]]
\* when it returns; so after any sequence of Inserts the stored multiset is a
\* sub-multiset of the inserted non-NaN values.
C37_NoFabrication ==
  /\ [](thrown = "none" /\ n = 0 => levels_[0] = levels_[num_levels_])
  /\ [](StoredAreKeys)
  /\ [][thrown = "none" =>
          \A keys \in {AcceptedKeys} :
            /\ \A offset \in {0, 1} :
                 \A st \in {internal_update(T, Sketch, level_capacities,
                                            is_level_zero_sorted_, offset)} :
                   \A item \in keys :
                     PlaceItem(st, item) => StoresOnly(keys, item)
            /\ \A item \in KLLKeys(T) \ keys :
                 update(item, 0) => StoresNothing]_vars

C37_Witness ==
  /\ thrown = "none"
  /\ num_levels_ >= 3
  /\ levels_[0] < levels_[1]
  /\ levels_[1] < levels_[2]
  /\ levels_[num_levels_] - levels_[0] < n_
  /\ \E v \in AcceptedKeys :
       /\ StoredCount(items_, levels_, num_levels_, v) = 0
       /\ n_ = n

----------------------------------------------------------------------------
(* SpaceSaving: the values of the arithmetic sketch are pairwise distinct *)

\* the slots whose value has the bits of v
SlotsHolding(v) == {i \in DOMAIN values : values[i] = v}

\* C38: in the arithmetic sketch no two slots of values hold the same bits,
\* fresh and after every Insert, so that the scan of Find matches at most one
\* slot for any value.
C38_ValuesDistinct ==
  IsArithmetic(T) =>
    /\ \A i, j \in DOMAIN values : i # j => values[i] # values[j]
    /\ \A v \in Keys(T) :
         /\ Cardinality(SlotsHolding(Normalized(T, v))) <= 1
         /\ \A b \in 0..(NumBlocks - 1) :
              Cardinality(CompareKeys(values, Normalized(T, v),
                                      b * ScaledLanes, ScaledLanes)) <= 1

\* a value tracked by the second block has been inserted again, and the
\* minimum has been replaced
C38_Witness ==
  /\ IsArithmetic(T)
  /\ \E v \in Keys(T) :
       /\ freq[v] >= 2
       /\ SlotsHolding(Normalized(T, v)) # {}
       /\ \A i \in SlotsHolding(Normalized(T, v)) :
            i >= ScaledLanes /\ weights[i] >= 2
  /\ \E i \in DOMAIN values : values[i] \notin {sequence(T, ScaledK)[j] : j \in 0..(ScaledK - 1)}
  /\ weights[0] >= 1

----------------------------------------------------------------------------
(* SpaceSaving: weights over time *)

\* what a slot tracks: the value, with its fingerprint in the opaque sketch
TrackedBy(hs, vals, i) ==
  IF IsArithmetic(T) THEN <<vals[i]>> ELSE <<hs[i], vals[i]>>

TrackedBefore == {TrackedBy(hashes, values, i) : i \in DOMAIN values}

\* the slots that track e after the step
SlotsAfter(e) == {j \in DOMAIN values' : TrackedBy(hashes', values', j) = e}

\* the step, an Insert of key: the minimum weight does not decrease; what a
\* slot tracks and is still tracked after the step has no smaller weight; and
\* what is no longer tracked was tracked by slot 0 and key was not tracked
MonotoneStep(key) ==
  /\ weights'[0] >= weights[0]
  /\ \A i \in DOMAIN values :
       LET e == TrackedBy(hashes, values, i)
       IN IF SlotsAfter(e) # {}
            THEN \A j \in SlotsAfter(e) : weights'[j] >= weights[i]
            ELSE i = 0 /\ key \notin TrackedBefore

\* C39: every Insert of final::SpaceSaving leaves weights[0] no smaller, leaves
\* the weight of every value that stays tracked no smaller, and removes a
\* tracked value only from index 0 and only when the inserted value was not
\* tracked (a value of the opaque sketch is tracked under its fingerprint).
C39_Monotone ==
  [][/\ \A v \in DOMAIN freq : Insert(v) => MonotoneStep(<<Normalized(T, v)>>)
     /\ \A v \in DOMAIN freq : \A h \in Hashes128 :
          InsertHashed(v, h) => MonotoneStep(<<roll_down(h), v>>)]_vars

\* the minimum has risen above zero, a tracked value has been inserted again,
\* and a value inserted before is no longer tracked
C39_Witness ==
  /\ weights[0] >= 1
  /\ \E i \in DOMAIN values : weights[i] >= 2 /\ freq[values[i]] >= 2
  /\ \E v \in DOMAIN freq :
       /\ freq[v] >= 1
       /\ \A i \in DOMAIN values : values[i] # Normalized(T, v)

----------------------------------------------------------------------------
(* CountSketch: the order of the Inserts *)

\* the counter table after Insert(hash) into table
TableAfter(table, hash) == InsertRows(table, <<>>, hash, 0, t, d).C

\* the table after count Inserts of hash
RECURSIVE TableAfterTimes(_, _, _)
TableAfterTimes(table, hash, count) ==
  IF count = 0 THEN table
  ELSE TableAfterTimes(TableAfter(table, hash), hash, count - 1)

\* the table after the Inserts counted by counts, the hashes of S taken in
\* one fixed order
RECURSIVE TableAfterAll(_, _, _)
TableAfterAll(table, counts, S) ==
  IF S = {} THEN table
  ELSE LET hash == CHOOSE h \in S : \A g \in S : Word128(h) <= Word128(g)
       IN TableAfterAll(TableAfterTimes(table, hash, counts[hash]), counts,
                        S \ {hash})

\* the hashes inserted so far
InsertedHashes == {hash \in Hashes : inserted[hash] > 0}

\* the counters the Insert of hash reaches
CountersOf(hash) ==
  {GetCounter(j, HashExtract(hash, j, t, d)[1], t) : j \in Rows}

\* C40: whatever the order in which the Inserts were made, the counter table
\* is the one the same multiset of hashes gives in one fixed order from the
\* same first table; and from the table reached, one more Insert of a hash
\* inserted before and an Insert of any other hash give the same table in
\* either order.
C40_OrderIrrelevant ==
  /\ C = TableAfterAll(C0, inserted, InsertedHashes)
  /\ \A h1 \in InsertedHashes : \A first1 \in {TableAfter(C, h1)} :
       \A h2 \in Hashes \ {h1} : \A first2 \in {TableAfter(C, h2)} :
         TableAfter(first1, h2) = TableAfter(first2, h1)

\* two different hashes have been inserted that reach a common counter
C40_Witness ==
  /\ n = 2
  /\ C # C0
  /\ \E h1, h2 \in InsertedHashes :
       /\ h1 # h2
       /\ CountersOf(h1) \cap CountersOf(h2) # {}
       /\ CountersOf(h1) # CountersOf(h2)

=============================================================================
